---------------------------- MODULE Spec2Model ----------------------------
(***************************************************************************)
(* A model of the lox-rs interpreter: the scanner (src/src/scanner.rs),    *)
(* the recursive-descent parser (src/src/parser.rs), the lexical           *)
(* environment (src/src/environment.rs), the tree-walking evaluator        *)
(* (src/src/interpreter.rs) and the runner that drives them in file and    *)
(* interactive mode (src/src/runner.rs).                                   *)
(*                                                                         *)
(* Source text is a TLA+ string; a character is a string of length one.    *)
(* Pure functions of the program are operators; the runner's pipeline is   *)
(* the state machine.                                                      *)
(***************************************************************************)
EXTENDS Integers, Sequences, FiniteSets, TLC

VARIABLES
    harness,    \* which entry point drives the run: "runner", "scanner" or "parser"
    mode,       \* Runner.source: "file" (Some(path)) or "repl" (None)
    pc,         \* position of the driver inside Runner::run / _run / _run_repl
    content,    \* the source text handed to _run
    strict,     \* the strict flag handed to Parser::new
    scanner,    \* Scanner {source, tokens, loc}
    scanres,    \* result of the last Scanner::run call: "none", "Ok" or "Err"
    parser,     \* Parser {tokens, curr, in_loop, strict, out}, its loop locals and its result
    interp,     \* Interpreter {env, break_encountered, debug, out}
    todo,       \* the statements interpret() has still to iterate over
    stdout,     \* lines written to the process's standard output
    stderr,     \* lines written to the process's standard error
    result,     \* what Runner::run returned: "none", "Ok" or "Err"
    nlines      \* number of prompt lines read so far

vars == <<harness, mode, pc, content, strict, scanner, scanres, parser, interp,
          todo, stdout, stderr, result, nlines>>

----------------------------------------------------------------------------
(* Characters *)

Ch(s, i) == SubSeq(s, i, i)

NUL == "NUL"   \* the '\0' that peek() returns at the end of the source

Digits == {"0", "1", "2", "3", "4", "5", "6", "7", "8", "9"}

Lowercase == {"a", "b", "c", "d", "e", "f", "g", "h", "i", "j", "k", "l", "m",
              "n", "o", "p", "q", "r", "s", "t", "u", "v", "w", "x", "y", "z"}

Uppercase == {"A", "B", "C", "D", "E", "F", "G", "H", "I", "J", "K", "L", "M",
              "N", "O", "P", "Q", "R", "S", "T", "U", "V", "W", "X", "Y", "Z"}

is_ascii_digit(ch) == ch \in Digits

is_ascii_alphanumeric(ch) == ch \in Digits \cup Lowercase \cup Uppercase

_is_alpha(ch) == ch \in Lowercase \cup Uppercase \cup {"_"}

DigitVal(ch) ==
    CASE ch = "0" -> 0 [] ch = "1" -> 1 [] ch = "2" -> 2 [] ch = "3" -> 3
      [] ch = "4" -> 4 [] ch = "5" -> 5 [] ch = "6" -> 6 [] ch = "7" -> 7
      [] ch = "8" -> 8 [] ch = "9" -> 9

DigitCh(n) ==
    CASE n = 0 -> "0" [] n = 1 -> "1" [] n = 2 -> "2" [] n = 3 -> "3"
      [] n = 4 -> "4" [] n = 5 -> "5" [] n = 6 -> "6" [] n = 7 -> "7"
      [] n = 8 -> "8" [] n = 9 -> "9"

----------------------------------------------------------------------------
(* Literal: None | Number(f64) | String(chars) | Boolean(bool).  A Number   *)
(* is the rational n/d in lowest terms with d > 0; d = 0 stands for the    *)
(* non-finite values: n = 1 is +inf, n = -1 is -inf, n = 0 is NaN.         *)

LitNone == [t |-> "None", n |-> 0, d |-> 1, s |-> "", b |-> FALSE]

LitBoolean(v) == [t |-> "Boolean", n |-> 0, d |-> 1, s |-> "", b |-> v]

LitString(v) == [t |-> "String", n |-> 0, d |-> 1, s |-> v, b |-> FALSE]

Abs(x) == IF x < 0 THEN -x ELSE x

Sign(x) == IF x < 0 THEN -1 ELSE IF x > 0 THEN 1 ELSE 0

RECURSIVE Gcd(_, _)
Gcd(a, b) == IF b = 0 THEN a ELSE Gcd(b, a % b)

LitNumber(num, den) ==
    IF den = 0
    THEN [t |-> "Number", n |-> Sign(num), d |-> 0, s |-> "", b |-> FALSE]
    ELSE LET g == Gcd(Abs(num), Abs(den))
             sg == IF den < 0 THEN -1 ELSE 1
         IN  [t |-> "Number", n |-> (sg * num) \div g, d |-> (sg * den) \div g,
              s |-> "", b |-> FALSE]

LitInt(v) == LitNumber(v, 1)

IsNaN(x) == x.t = "Number" /\ x.d = 0 /\ x.n = 0

\* PartialEq of Literal: per variant; f64 equality makes NaN unequal to itself.
LiteralEq(l, r) ==
    /\ l.t = r.t
    /\ CASE l.t = "None" -> TRUE
         [] l.t = "Boolean" -> l.b = r.b
         [] l.t = "String" -> l.s = r.s
         [] l.t = "Number" -> ~IsNaN(l) /\ ~IsNaN(r) /\ l.n = r.n /\ l.d = r.d

----------------------------------------------------------------------------
(* Tokens *)

LocationInfo(column, line, len) == [column |-> column, line |-> line, len |-> len]

\* TokenBuilder::default().location(column, line)
BuilderAt(column, line) ==
    [token_type |-> "Eof", lexeme |-> "", column |-> column, line |-> line]

append_lexeme(builder, ch) == [builder EXCEPT !.lexeme = @ \o ch]

\* f64 parse of a lexeme DIGIT+ ( "." DIGIT+ )?
RECURSIVE ParseDigits(_, _, _, _, _)
ParseDigits(lexeme, i, num, den, frac) ==
    IF i > Len(lexeme) THEN LitNumber(num, den)
    ELSE IF Ch(lexeme, i) = "." THEN ParseDigits(lexeme, i + 1, num, den, TRUE)
    ELSE ParseDigits(lexeme, i + 1, num * 10 + DigitVal(Ch(lexeme, i)),
                     IF frac THEN den * 10 ELSE den, frac)

\* TokenBuilder::build
build(builder) ==
    [token_type |-> builder.token_type,
     lexeme |-> builder.lexeme,
     literal |-> CASE builder.token_type = "Number" ->
                        ParseDigits(builder.lexeme, 1, 0, 1, FALSE)
                   [] builder.token_type = "Eof" -> LitNone
                   [] OTHER -> LitString(builder.lexeme),
     loc |-> LocationInfo(builder.column, builder.line, Len(builder.lexeme))]

IDENTIFIERS ==
    {<<"and", "And">>, <<"class", "Class">>, <<"else", "Else">>,
     <<"false", "False">>, <<"for", "For">>, <<"if", "If">>, <<"nil", "Nil">>,
     <<"or", "Or">>, <<"print", "Print">>, <<"return", "Return">>,
     <<"super", "Super">>, <<"this", "This">>, <<"true", "True">>,
     <<"var", "Var">>, <<"while", "While">>, <<"break", "Break">>}

----------------------------------------------------------------------------
(* Scanner *)

ScannerNew(source) ==
    [source |-> source, tokens |-> <<>>, loc |-> LocationInfo(0, 1, 0)]

ScanIsAtEnd(s) == s.loc.len = Len(s.source)

ScanPeek(s) == IF ScanIsAtEnd(s) THEN NUL ELSE Ch(s.source, s.loc.len + 1)

peek_next(s) ==
    IF ScanIsAtEnd(s) \/ s.loc.len + 1 >= Len(s.source) THEN NUL
    ELSE Ch(s.source, s.loc.len + 2)

\* next(): the scanner after the call; the character returned is ScanPeek before it.
ScanNext(s) ==
    [s EXCEPT !.loc.len = @ + 1, !.loc.column = @ + 1]

_add_token(s, chars, token_type, builder) ==
    [s EXCEPT !.tokens =
        Append(@, build([builder EXCEPT !.token_type = token_type,
                                        !.lexeme = @ \o chars]))]

\* the loop of _add_string: consume up to the closing quote or the end
RECURSIVE StringBody(_, _)
StringBody(s, builder) ==
    IF ScanPeek(s) # "\"" /\ ~ScanIsAtEnd(s)
    THEN LET s1 == IF ScanPeek(s) = "\n" THEN [s EXCEPT !.loc.line = @ + 1] ELSE s
         IN  StringBody(ScanNext(s1), append_lexeme(builder, ScanPeek(s)))
    ELSE [s |-> s, builder |-> builder]

\* _add_string as it would be if the end of the source closed an open string
_add_string_accepts_open(s, builder) ==
    LET b0 == [builder EXCEPT !.token_type = "String",
                              !.column = s.loc.column, !.line = s.loc.line]
        r == StringBody(s, b0)
        closed == IF ScanIsAtEnd(r.s) THEN r.s ELSE ScanNext(r.s)
    IN  [ok |-> TRUE, s |-> [closed EXCEPT !.tokens = Append(@, build(r.builder))],
         cause |-> "", location |-> build(r.builder).loc]

_add_string(s, builder) ==
    LET b0 == [builder EXCEPT !.token_type = "String",
                              !.column = s.loc.column, !.line = s.loc.line]
        r == StringBody(s, b0)
    IN  IF ScanIsAtEnd(r.s)
        THEN [ok |-> FALSE, s |-> r.s, cause |-> "unterminated string",
              location |-> build(r.builder).loc]
        ELSE [ok |-> TRUE,
              s |-> [ScanNext(r.s) EXCEPT !.tokens = Append(@, build(r.builder))],
              cause |-> "", location |-> build(r.builder).loc]

RECURSIVE DigitRun(_, _)
DigitRun(s, builder) ==
    IF is_ascii_digit(ScanPeek(s))
    THEN DigitRun(ScanNext(s), append_lexeme(builder, ScanPeek(s)))
    ELSE [s |-> s, builder |-> builder]

_add_number(s, builder) ==
    LET r1 == DigitRun(s, [builder EXCEPT !.token_type = "Number"])
        r2 == IF ScanPeek(r1.s) = "." /\ is_ascii_digit(peek_next(r1.s))
              THEN DigitRun(ScanNext(r1.s), append_lexeme(r1.builder, "."))
              ELSE r1
    IN  [r2.s EXCEPT !.tokens = Append(@, build(r2.builder))]

RECURSIVE IdentRun(_, _)
IdentRun(s, builder) ==
    IF ~ScanIsAtEnd(s) /\ (is_ascii_alphanumeric(ScanPeek(s)) \/ ScanPeek(s) = "_")
    THEN IdentRun(ScanNext(s), append_lexeme(builder, ScanPeek(s)))
    ELSE [s |-> s, builder |-> builder]

_add_identifier(s, builder) ==
    LET r == IdentRun(s, [builder EXCEPT !.token_type = "Identifier"])
        token_type == {e \in IDENTIFIERS : e[1] = r.builder.lexeme}
        b1 == IF Cardinality(token_type) = 1
              THEN [r.builder EXCEPT !.token_type = (CHOOSE e \in token_type : TRUE)[2]]
              ELSE r.builder
    IN  [r.s EXCEPT !.tokens = Append(@, build(b1))]

\* the comment loop as it would be if it consumed nothing
SkipComment_keeps_text(s) == s

RECURSIVE SkipComment(_)
SkipComment(s) ==
    IF ScanPeek(s) # "\n" /\ ~ScanIsAtEnd(s) THEN SkipComment(ScanNext(s)) ELSE s

\* next_if(|ch| ch == want): whether the next character is consumed
NextIs(s, want) == ~ScanIsAtEnd(s) /\ Ch(s.source, s.loc.len + 1) = want

OneOrTwo(s, ch, builder, one, two) ==
    IF NextIs(s, "=")
    THEN _add_token(ScanNext(s), ch \o "=", two, builder)
    ELSE _add_token(s, ch, one, builder)

SingleCharTokens ==
    {<<"(", "LeftParen">>, <<")", "RightParen">>, <<"{", "LeftBrace">>,
     <<"}", "RightBrace">>, <<",", "Comma">>, <<".", "Dot">>, <<"-", "Minus">>,
     <<"+", "Plus">>, <<";", "Semicolon">>, <<"*", "Star">>}

ScanOk(s) == [ok |-> TRUE, s |-> s, cause |-> "", location |-> s.loc]

scan_token(s0) ==
    LET builder == BuilderAt(s0.loc.column, s0.loc.line)
        ch == Ch(s0.source, s0.loc.len + 1)
        s == ScanNext(s0)
        single == {e \in SingleCharTokens : e[1] = ch}
    IN  CASE ch \in {" ", "\r", "\t"} -> ScanOk(s)
          [] ch = "\n" -> ScanOk([s EXCEPT !.loc.line = @ + 1])
          [] single # {} ->
                ScanOk(_add_token(s, ch, (CHOOSE e \in single : TRUE)[2], builder))
          [] ch = "!" -> ScanOk(OneOrTwo(s, ch, builder, "Bang", "BangEqual"))
          [] ch = "=" -> ScanOk(OneOrTwo(s, ch, builder, "Equal", "EqualEqual"))
          [] ch = "<" -> ScanOk(OneOrTwo(s, ch, builder, "Less", "LessEqual"))
          [] ch = ">" -> ScanOk(OneOrTwo(s, ch, builder, "Greater", "GreaterEqual"))
          [] ch = "/" ->
                IF NextIs(s, "/") THEN ScanOk(SkipComment(ScanNext(s)))
                ELSE ScanOk(_add_token(s, ch, "Slash", builder))
          [] ch = "\"" -> _add_string(s, builder)
          [] OTHER ->
                IF is_ascii_digit(ch) THEN ScanOk(_add_number(s, append_lexeme(builder, ch)))
                ELSE IF _is_alpha(ch)
                THEN ScanOk(_add_identifier(s, append_lexeme(builder, ch)))
                ELSE [ok |-> FALSE, s |-> s, cause |-> "unexpected character: " \o ch,
                      location |-> build(builder).loc]

\* the loop of Scanner::run
RECURSIVE ScanLoop(_)
ScanLoop(s) ==
    IF ScanIsAtEnd(s)
    THEN ScanOk(_add_token(s, "", "Eof", BuilderAt(s.loc.column, s.loc.line)))
    ELSE LET r == scan_token(s)
         IN  IF r.ok THEN ScanLoop(r.s) ELSE r

\* Scanner::run as it would be without the check of the last token
ScannerRunOp_no_guard(s) == ScanLoop(s)

\* Scanner::run
ScannerRunOp(s) ==
    IF Len(s.tokens) > 0 /\ s.tokens[Len(s.tokens)].token_type = "Eof"
    THEN ScanOk(s)
    ELSE ScanLoop(s)

----------------------------------------------------------------------------
(* Decimal text of an integer, as format!("{}", n) writes it *)

RECURSIVE NatToStr(_)
NatToStr(n) == IF n < 10 THEN DigitCh(n) ELSE NatToStr(n \div 10) \o DigitCh(n % 10)

IntToStr(n) == IF n < 0 THEN "-" \o NatToStr(-n) ELSE NatToStr(n)

----------------------------------------------------------------------------
(* Expression and Statement.  A node is a tuple whose first element names   *)
(* the variant; an Option is <<>> (None) or <<x>> (Some(x)).               *)

ExprLiteral(literal) == <<"Literal", literal>>
ExprVariable(name) == <<"Variable", name>>
ExprAssignment(name, value) == <<"Assignment", name, value>>
ExprGroup(expr) == <<"Group", expr>>
ExprUnary(op, right) == <<"Unary", op, right>>
ExprBinary(left, op, right) == <<"Binary", left, op, right>>
ExprLogical(left, op, right) == <<"Logical", left, op, right>>

StmtBreak == <<"Break">>
StmtIf(cond, then_branch, else_branch) == <<"If", cond, then_branch, else_branch>>
StmtWhile(cond, body) == <<"While", cond, body>>
StmtPrint(expr) == <<"Print", expr>>
StmtVar(name, expr) == <<"Var", name, expr>>
StmtExpr(expr) == <<"Expr", expr>>
StmtBlock(stmts) == <<"Block", stmts>>

None == <<>>
Some(x) == <<x>>

----------------------------------------------------------------------------
(* Parser.  `curr` counts the tokens consumed, so peek() is tokens[curr+1] *)
(* and previous() is tokens[curr].  `out` names the Write sink given to    *)
(* Parser::new, `written` holds the lines written to it and `err` the      *)
(* lines primary() writes with eprintln!, until the driver's step hands    *)
(* them to the streams.  `synth` records, for every token consume()        *)
(* synthesized instead of reading, the cursor and the token type asked     *)
(* for; `panicked` records an index out of range.  `loops` and `breaks`    *)
(* are history only: the number of loop bodies being parsed, and for every *)
(* `break` read, that number and whether statement() let it pass.          *)

Line(kind, text) == [kind |-> kind, text |-> text]

ParserNew(tokens, out, strict_) ==
    [tokens |-> tokens, curr |-> 0, in_loop |-> FALSE, strict |-> strict_,
     out |-> out, written |-> <<>>, err |-> <<>>, synth |-> <<>>,
     panicked |-> FALSE, loops |-> 0, breaks |-> <<>>]

POk(v, p) == [ok |-> TRUE, v |-> v, p |-> p, cause |-> ""]
PErr(cause, p) == [ok |-> FALSE, v |-> <<>>, p |-> p, cause |-> cause]

peek(p) == p.tokens[p.curr + 1]

is_at_end(p) == IF p.tokens # <<>> THEN peek(p).token_type = "Eof" ELSE TRUE

check(p, _type) == IF is_at_end(p) THEN FALSE ELSE peek(p).token_type = _type

\* previous(): tokens[curr - 1] of the code; out of range when nothing was consumed
previous(p) == IF p.curr >= 1 THEN p.tokens[p.curr] ELSE build(BuilderAt(0, 0))

\* advance(): the parser after the call; the token returned is previous() of it
advance(p) ==
    LET p1 == IF ~is_at_end(p) THEN [p EXCEPT !.curr = @ + 1] ELSE p
    IN  IF p1.curr >= 1 THEN p1 ELSE [p1 EXCEPT !.panicked = TRUE]

\* matches_token(types): whether it returns true; the parser is then advance(p)
matches_token(p, types) == \E t \in types : check(p, t)

\* consume() as it would be if the lenient mode forgave any missing token
consume_any_token(p, _type, msg) ==
    IF check(p, _type) THEN POk(previous(advance(p)), advance(p))
    ELSE IF ~p.strict
    THEN POk(build(BuilderAt(0, 0)),
             [p EXCEPT !.synth = Append(@, <<p.curr, _type>>)])
    ELSE PErr(msg, p)

consume(p, _type, msg) ==
    IF check(p, _type) THEN POk(previous(advance(p)), advance(p))
    ELSE IF ~p.strict /\ _type = "Semicolon"
    THEN POk(build(BuilderAt(0, 0)),
             [p EXCEPT !.synth = Append(@, <<p.curr, _type>>)])
    ELSE PErr(msg, p)

synchronize_keywords == {"Class", "Var", "For", "If", "While", "Print", "Return"}

RECURSIVE SyncLoop(_)
SyncLoop(p) ==
    IF ~is_at_end(p)
    THEN IF peek(p).token_type \in synchronize_keywords THEN p
         ELSE SyncLoop(advance(p))
    ELSE p

\* synchronize() as it would be without the advance() it starts with
synchronize_from_the_error(p) == SyncLoop(p)

synchronize(p) == SyncLoop(advance(p))

\* the `?` of the code: an Err is returned at once, an Ok value goes on
Then(r, F(_)) == IF ~r.ok THEN r ELSE F(r)

\* BinaryOf as it would be if an operator took the last operand of the
\* expression before it instead of the whole of it
BinaryOf_groups_right(left, right) ==
    IF left = <<>> THEN right
    ELSE IF left[1][1] = "Binary"
    THEN <<"Binary", left[1][2], left[1][3], <<"Binary", left[1][4], left[2], right>>>>
    ELSE <<"Binary", left[1], left[2], right>>

\* the expression a binary loop holds after reading one more operand; `left`
\* is None, or <<expr, op>>: what was read before that operand
BinaryOf(left, right) ==
    IF left = None THEN right ELSE ExprBinary(left[1], left[2], right)

LogicalOf(left, right) ==
    IF left = None THEN right ELSE ExprLogical(left[1], left[2], right)

\* the wrappings as they would be if both blocks were made whatever is missing
ForBody_always_blocks(initializer, condition, increment, stmt) ==
    <<"Block",
      (IF initializer # <<>> THEN <<initializer[1]>> ELSE <<>>)
        \o <<(<<"While", condition,
                <<"Block", <<stmt>> \o (IF increment # <<>>
                                         THEN <<(<<"Expr", increment[1]>>)>>
                                         ELSE <<>>)>>>>)>>>>

\* the three wrappings at the end of for_statement()
ForBody(initializer, condition, increment, stmt) ==
    LET body1 == IF increment # None
                 THEN StmtBlock(<<stmt, StmtExpr(increment[1])>>)
                 ELSE stmt
        body2 == StmtWhile(condition, body1)
    IN  IF initializer # None THEN StmtBlock(<<initializer[1], body2>>) ELSE body2

\* the reset as it would be if every loop cleared the flag on its way out
LoopStateReset_always(p0, p) == [p EXCEPT !.in_loop = FALSE]

\* `if loop_state_set { self.in_loop = false; }`, p0 being the parser on entry
LoopStateReset(p0, p) == IF ~p0.in_loop THEN [p EXCEPT !.in_loop = FALSE] ELSE p

\* history: the parser enters and leaves the body of a loop, and reads a `break`
EnterBody(p) == [p EXCEPT !.loops = @ + 1]
LeaveBody(p) == [p EXCEPT !.loops = @ - 1]
LogBreak(p, passed) == [p EXCEPT !.breaks = Append(@, <<p.loops, passed>>)]

RECURSIVE declaration(_), var_declaration(_), statement(_), block(_), BlockLoop(_, _),
          for_statement(_), while_statement(_), if_statement(_), print_statement(_),
          expr_statement(_), expression(_), assignment(_), logical_or(_),
          LogicalOrLoop(_, _), logical_and(_), LogicalAndLoop(_, _), equality(_),
          EqualityLoop(_, _), comparison(_), ComparisonLoop(_, _), term(_),
          TermLoop(_, _), factor(_), FactorLoop(_, _), unary(_), primary(_)

primary(p) ==
    IF matches_token(p, {"False"}) THEN POk(ExprLiteral(LitBoolean(FALSE)), advance(p))
    ELSE IF matches_token(p, {"True"}) THEN POk(ExprLiteral(LitBoolean(TRUE)), advance(p))
    ELSE IF matches_token(p, {"Number", "String"})
    THEN POk(ExprLiteral(previous(advance(p)).literal), advance(p))
    ELSE IF matches_token(p, {"LeftParen"})
    THEN Then(expression(advance(p)), LAMBDA group :
         Then(consume(group.p, "RightParen", "expect ')' after expression."), LAMBDA c :
         POk(ExprGroup(group.v), c.p)))
    ELSE IF matches_token(p, {"Identifier"})
    THEN POk(ExprVariable(previous(advance(p))), advance(p))
    ELSE PErr("expect expression",
              [p EXCEPT !.err = Append(@, Line("debug_token", peek(p).token_type))])

unary(p) ==
    IF matches_token(p, {"Bang", "Minus"})
    THEN Then(unary(advance(p)), LAMBDA right :
         POk(ExprUnary(previous(advance(p)), right.v), right.p))
    ELSE primary(p)

\* factor(): an operand, and for as long as an operator follows, one more
FactorLoop(p, left) ==
    Then(unary(p), LAMBDA right :
    IF matches_token(right.p, {"Slash", "Star"})
    THEN FactorLoop(advance(right.p),
                    <<BinaryOf(left, right.v), previous(advance(right.p))>>)
    ELSE POk(BinaryOf(left, right.v), right.p))

factor(p) == FactorLoop(p, None)

TermLoop(p, left) ==
    Then(factor(p), LAMBDA right :
    IF matches_token(right.p, {"Minus", "Plus"})
    THEN TermLoop(advance(right.p),
                  <<BinaryOf(left, right.v), previous(advance(right.p))>>)
    ELSE POk(BinaryOf(left, right.v), right.p))

term(p) == TermLoop(p, None)

ComparisonLoop(p, left) ==
    Then(term(p), LAMBDA right :
    IF matches_token(right.p, {"GreaterEqual", "Greater", "LessEqual", "Less"})
    THEN ComparisonLoop(advance(right.p),
                        <<BinaryOf(left, right.v), previous(advance(right.p))>>)
    ELSE POk(BinaryOf(left, right.v), right.p))

comparison(p) == ComparisonLoop(p, None)

EqualityLoop(p, left) ==
    Then(comparison(p), LAMBDA right :
    IF matches_token(right.p, {"BangEqual", "EqualEqual"})
    THEN EqualityLoop(advance(right.p),
                      <<BinaryOf(left, right.v), previous(advance(right.p))>>)
    ELSE POk(BinaryOf(left, right.v), right.p))

equality(p) == EqualityLoop(p, None)

LogicalAndLoop(p, left) ==
    Then(equality(p), LAMBDA right :
    IF matches_token(right.p, {"And"})
    THEN LogicalAndLoop(advance(right.p),
                        <<LogicalOf(left, right.v), previous(advance(right.p))>>)
    ELSE POk(LogicalOf(left, right.v), right.p))

logical_and(p) == LogicalAndLoop(p, None)

LogicalOrLoop(p, left) ==
    Then(logical_and(p), LAMBDA right :
    IF matches_token(right.p, {"Or"})
    THEN LogicalOrLoop(advance(right.p),
                       <<LogicalOf(left, right.v), previous(advance(right.p))>>)
    ELSE POk(LogicalOf(left, right.v), right.p))

logical_or(p) == LogicalOrLoop(p, None)

assignment(p) ==
    Then(logical_or(p), LAMBDA expr :
    IF matches_token(expr.p, {"Equal"})
    THEN Then(assignment(advance(expr.p)), LAMBDA value :
         IF expr.v[1] = "Variable"
         THEN POk(ExprAssignment(expr.v[2], value.v), value.p)
         ELSE PErr("invalid assignment target at "
                     \o IntToStr(previous(advance(expr.p)).loc.column) \o " "
                     \o IntToStr(previous(advance(expr.p)).loc.line), value.p))
    ELSE expr)

expression(p) == assignment(p)

expr_statement(p) ==
    Then(expression(p), LAMBDA expr :
    Then(consume(expr.p, "Semicolon", "expected ';' after expression."), LAMBDA c :
    POk(StmtExpr(expr.v), c.p)))

print_statement(p) ==
    Then(expression(p), LAMBDA expr :
    Then(consume(expr.p, "Semicolon", "expected ';' after expression."), LAMBDA c :
    POk(StmtPrint(expr.v), c.p)))

if_statement(p) ==
    Then(consume(p, "LeftParen", "expect '(' after if condition"), LAMBDA c1 :
    Then(expression(c1.p), LAMBDA cond :
    Then(consume(cond.p, "RightParen", "expect ')' after if condition"), LAMBDA c2 :
    Then(statement(c2.p), LAMBDA then_branch :
    IF matches_token(then_branch.p, {"Else"})
    THEN Then(statement(advance(then_branch.p)), LAMBDA else_branch :
         POk(StmtIf(cond.v, then_branch.v, Some(else_branch.v)), else_branch.p))
    ELSE POk(StmtIf(cond.v, then_branch.v, None), then_branch.p)))))

while_statement(p) ==
    Then(consume([p EXCEPT !.in_loop = TRUE], "LeftParen",
                 "expect '(' after while condition"), LAMBDA c1 :
    Then(expression(c1.p), LAMBDA cond :
    Then(consume(cond.p, "RightParen", "expect ')' after while condition"), LAMBDA c2 :
    Then(statement(EnterBody(c2.p)), LAMBDA body :
    POk(StmtWhile(cond.v, body.v), LoopStateReset(p, LeaveBody(body.p)))))))

for_statement(p) ==
    Then(consume([p EXCEPT !.in_loop = TRUE], "LeftParen", "expect '(' after 'for'"),
         LAMBDA c1 :
    Then(IF matches_token(c1.p, {"Semicolon"}) THEN POk(None, advance(c1.p))
         ELSE IF matches_token(c1.p, {"Var"})
         THEN Then(var_declaration(advance(c1.p)), LAMBDA d : POk(Some(d.v), d.p))
         ELSE Then(expr_statement(c1.p), LAMBDA e : POk(Some(e.v), e.p)),
         LAMBDA initializer :
    Then(IF ~check(initializer.p, "Semicolon") THEN expression(initializer.p)
         ELSE POk(ExprLiteral(LitBoolean(TRUE)), initializer.p),
         LAMBDA condition :
    Then(consume(condition.p, "Semicolon", "expect ';' after loop condition"),
         LAMBDA c2 :
    Then(IF ~check(c2.p, "RightParen")
         THEN Then(expression(c2.p), LAMBDA incr : POk(Some(incr.v), incr.p))
         ELSE POk(None, c2.p),
         LAMBDA increment :
    Then(consume(increment.p, "RightParen", "expect ')' after 'for' clauses"),
         LAMBDA c3 :
    Then(statement(EnterBody(c3.p)), LAMBDA stmt :
    POk(ForBody(initializer.v, condition.v, increment.v, stmt.v),
        LoopStateReset(p, LeaveBody(stmt.p))))))))))

BlockLoop(p, stmts) ==
    IF ~check(p, "RightBrace") /\ ~is_at_end(p)
    THEN Then(declaration(p), LAMBDA d : BlockLoop(d.p, Append(stmts, d.v)))
    ELSE POk(stmts, p)

block(p) ==
    Then(BlockLoop(p, <<>>), LAMBDA stmts :
    Then(consume(stmts.p, "RightBrace", "expect '}' after block"), LAMBDA c :
    POk(StmtBlock(stmts.v), c.p)))

statement(p) ==
    IF matches_token(p, {"Print"}) THEN print_statement(advance(p))
    ELSE IF matches_token(p, {"If"}) THEN if_statement(advance(p))
    ELSE IF matches_token(p, {"For"}) THEN for_statement(advance(p))
    ELSE IF matches_token(p, {"While"}) THEN while_statement(advance(p))
    ELSE IF matches_token(p, {"LeftBrace"}) THEN block(advance(p))
    ELSE IF matches_token(p, {"Break"})
    THEN IF ~advance(p).in_loop
         THEN PErr("break can not be used outside a loop", LogBreak(advance(p), FALSE))
         ELSE Then(consume(LogBreak(advance(p), TRUE), "Semicolon",
                           "expect ';' after break"),
                   LAMBDA c : POk(StmtBreak, c.p))
    ELSE expr_statement(p)

var_declaration(p) ==
    Then(consume(p, "Identifier", "expect a variable name"), LAMBDA name :
    Then(IF matches_token(name.p, {"Equal"})
         THEN Then(expression(advance(name.p)), LAMBDA e : POk(Some(e.v), e.p))
         ELSE POk(None, name.p), LAMBDA expr :
    Then(consume(expr.p, "Semicolon", "expect ';' after declaration"), LAMBDA c :
    POk(StmtVar(name.v, expr.v), c.p))))

declaration(p) ==
    IF matches_token(p, {"Var"}) THEN var_declaration(advance(p)) ELSE statement(p)

(* Parser::parse.  A ParseRun holds the parser, the locals `statements`    *)
(* and `error` of parse(), and what parse() returned once it has.          *)

ParseStart(p) ==
    [p |-> p, statements |-> <<>>, error |-> FALSE, returned |-> FALSE, ret |-> <<>>]

\* `match r { Ok(v) => ..., Err(e) => ... }`
Match(r, OkArm(_), ErrArm(_)) == IF r.ok THEN OkArm(r) ELSE ErrArm(r)

\* one iteration of the while loop of parse()
ParseIter(run) ==
    Match(declaration(run.p),
          LAMBDA stmt : [run EXCEPT !.p = stmt.p, !.statements = Append(@, stmt.v)],
          LAMBDA e : [run EXCEPT
                        !.error = TRUE,
                        !.p = synchronize([e.p EXCEPT
                                             !.written = Append(@, Line("parse_error", e.cause)),
                                             !.loops = 0])])

\* the end of parse() as it would be without `statements.clear()`
ParseReturn_keeps_statements(run) ==
    [run EXCEPT !.returned = TRUE, !.ret = run.statements]

\* the end of parse(): the statements, cleared when an error was seen
ParseReturn(run) ==
    [run EXCEPT !.returned = TRUE,
                !.ret = IF ~run.error THEN run.statements ELSE <<>>,
                !.statements = IF ~run.error THEN run.statements ELSE <<>>]

RECURSIVE ParseLoop(_)
ParseLoop(run) ==
    IF ~is_at_end(run.p) THEN ParseLoop(ParseIter(run)) ELSE ParseReturn(run)

parse(p) == ParseLoop(ParseStart(p))

----------------------------------------------------------------------------
(* f64 arithmetic on the Number literals *)

NaN == LitNumber(0, 0)

NumNeg(x) == LitNumber(-x.n, x.d)

NumAdd(l, r) ==
    IF l.d = 0 \/ r.d = 0
    THEN IF IsNaN(l) \/ IsNaN(r) THEN NaN
         ELSE IF l.d = 0 /\ r.d = 0 THEN (IF l.n = r.n THEN l ELSE NaN)
         ELSE IF l.d = 0 THEN l ELSE r
    ELSE LitNumber(l.n * r.d + r.n * l.d, l.d * r.d)

NumSub(l, r) == NumAdd(l, NumNeg(r))

NumMul(l, r) ==
    IF l.d = 0 \/ r.d = 0
    THEN IF IsNaN(l) \/ IsNaN(r) \/ l.n = 0 \/ r.n = 0 THEN NaN
         ELSE LitNumber(Sign(l.n) * Sign(r.n), 0)
    ELSE LitNumber(l.n * r.n, l.d * r.d)

NumRecip(r) ==
    IF r.d = 0 THEN (IF IsNaN(r) THEN NaN ELSE LitInt(0))
    ELSE IF r.n = 0 THEN LitNumber(1, 0)
    ELSE LitNumber(r.d, r.n)

NumDiv(l, r) == NumMul(l, NumRecip(r))

NumRank(x) == IF x.d = 0 THEN x.n ELSE 0

NumLess(l, r) ==
    /\ ~IsNaN(l) /\ ~IsNaN(r)
    /\ IF l.d = 0 \/ r.d = 0 THEN NumRank(l) < NumRank(r)
       ELSE l.n * r.d < r.n * l.d

NumLessEqual(l, r) ==
    /\ ~IsNaN(l) /\ ~IsNaN(r)
    /\ IF l.d = 0 \/ r.d = 0 THEN NumRank(l) <= NumRank(r)
       ELSE l.n * r.d <= r.n * l.d

\* the digits of rem/den after the decimal point, at most `left` of them
RECURSIVE FracDigits(_, _, _)
FracDigits(rem, den, left) ==
    IF rem = 0 \/ left = 0 THEN ""
    ELSE DigitCh((rem * 10) \div den) \o FracDigits((rem * 10) % den, den, left - 1)

\* Display of Literal
DisplayLiteral(x) ==
    CASE x.t = "None" -> "nil"
      [] x.t = "Boolean" -> IF x.b THEN "true" ELSE "false"
      [] x.t = "String" -> x.s
      [] x.t = "Number" ->
            IF x.d = 0 THEN (IF x.n = 0 THEN "NaN" ELSE IF x.n > 0 THEN "inf" ELSE "-inf")
            ELSE IF x.d = 1 THEN IntToStr(x.n)
            ELSE (IF x.n < 0 THEN "-" ELSE "") \o NatToStr(Abs(x.n) \div x.d) \o "."
                 \o FracDigits(Abs(x.n) % x.d, x.d, 16)

----------------------------------------------------------------------------
(* Environment.  Every scope encloses the scope that was current when it   *)
(* was created, so the chain from the interpreter's current scope to the   *)
(* root is a stack: env[1] is the root and env[Len(env)] the current       *)
(* scope.  A store is a set of entries [k, v] with distinct keys.          *)

EnvironmentNew == {}

Has(store, k) == \E e \in store : e.k = k

Lookup(store, k) == (CHOOSE e \in store : e.k = k).v

Insert(store, k, v) == {e \in store : e.k # k} \cup {[k |-> k, v |-> v]}

\* define as it would be if it always wrote to the root scope
define_in_root(env, k, v) == [env EXCEPT ![1] = Insert(@, k, v)]

\* Environment::define on the current scope
define(env, k, v) == [env EXCEPT ![Len(env)] = Insert(@, k, v)]

\* Environment::assign from scope i outward
RECURSIVE AssignFrom(_, _, _, _)
AssignFrom(env, i, k, v) ==
    IF Has(env[i], k)
    THEN [ok |-> TRUE, env |-> [env EXCEPT ![i] = Insert(@, k, v)], cause |-> ""]
    ELSE IF i > 1 THEN AssignFrom(env, i - 1, k, v)
    ELSE [ok |-> FALSE, env |-> env, cause |-> "undefined variable '" \o k \o "'"]

\* assign as it would be if it defined the name where no scope has it
assign_or_define(env, k, v) ==
    IF AssignFrom(env, Len(env), k, v).ok THEN AssignFrom(env, Len(env), k, v)
    ELSE [ok |-> TRUE, env |-> [env EXCEPT ![Len(env)] = Insert(@, k, v)], cause |-> ""]

\* assign as it would be if it reported success without writing
assign_writes_nothing(env, k, v) ==
    [AssignFrom(env, Len(env), k, v) EXCEPT !.env = env]

assign(env, k, v) == AssignFrom(env, Len(env), k, v)

\* Environment::get from scope i outward
RECURSIVE GetFrom(_, _, _)
GetFrom(env, i, k) ==
    IF Has(env[i], k) THEN [ok |-> TRUE, v |-> Lookup(env[i], k), cause |-> ""]
    ELSE IF i > 1 THEN GetFrom(env, i - 1, k)
    ELSE [ok |-> FALSE, v |-> LitNone, cause |-> "undefined variable '" \o k \o "'"]

get(env, k) == GetFrom(env, Len(env), k)

----------------------------------------------------------------------------
(* Interpreter.  `out` names the Write sink given to Interpreter::new and  *)
(* `written` holds the lines written to it until the driver's step hands   *)
(* them to the stream.  `fuel` bounds the iterations of the while loops of *)
(* one interpret() call; an evaluation that runs out of it never returns   *)
(* (`diverged`).  `blocks` counts the Block nodes around the statement    *)
(* being evaluated and `points` records, at the start and at the normal   *)
(* end of every statement, that count next to the length of the chain.    *)

MaxLoopIters == 6

InterpreterNew(out) ==
    [out |-> out, debug |-> FALSE, env |-> <<EnvironmentNew>>,
     break_encountered |-> FALSE, written |-> <<>>, fuel |-> MaxLoopIters,
     diverged |-> FALSE, blocks |-> 0, points |-> <<>>]

EOk(v, I) == [ok |-> TRUE, v |-> v, I |-> I, cause |-> ""]
EErr(cause, I) == [ok |-> FALSE, v |-> LitNone, I |-> I, cause |-> cause]

\* is_truthy as it would be if no value were truthy
is_truthy_never(literal) == FALSE

\* is_truthy as it would be if 0 and the empty string were false
is_truthy_zero_is_false(literal) ==
    IF LiteralEq(literal, LitNone) THEN FALSE
    ELSE IF literal.t = "Boolean" THEN literal.b
    ELSE IF literal.t = "Number" THEN literal.n # 0
    ELSE literal.s # ""

is_truthy(literal) ==
    IF LiteralEq(literal, LitNone) THEN FALSE
    ELSE IF literal.t = "Boolean" THEN literal.b
    ELSE TRUE

print_to_output(I, kind, text) == [I EXCEPT !.written = Append(@, Line(kind, text))]

\* the arms of the match on the operator for two Number operands
BinaryNumbers(left, op, right, I) ==
    CASE op.token_type = "Minus" -> EOk(NumSub(left, right), I)
      [] op.token_type = "Slash" -> EOk(NumDiv(left, right), I)
      [] op.token_type = "Star" -> EOk(NumMul(left, right), I)
      [] op.token_type = "Plus" -> EOk(NumAdd(left, right), I)
      [] op.token_type = "Greater" -> EOk(LitBoolean(NumLess(right, left)), I)
      [] op.token_type = "GreaterEqual" -> EOk(LitBoolean(NumLessEqual(right, left)), I)
      [] op.token_type = "Less" -> EOk(LitBoolean(NumLess(left, right)), I)
      [] op.token_type = "LessEqual" -> EOk(LitBoolean(NumLessEqual(left, right)), I)
      [] OTHER -> EErr("unexpected operator " \o op.token_type, I)

\* the same match as it would be if a failing operator undid the operands' effects
BinaryOthers_forgets(left, op, right, I) ==
    CASE op.token_type = "BangEqual" -> EOk(LitBoolean(~LiteralEq(left, right)), I)
      [] op.token_type = "EqualEqual" -> EOk(LitBoolean(LiteralEq(left, right)), I)
      [] OTHER -> EErr("invalid expression", [I EXCEPT !.env = <<EnvironmentNew>>])

\* the match on the operator for any other pair of operands
BinaryOthers(left, op, right, I) ==
    CASE op.token_type = "BangEqual" -> EOk(LitBoolean(~LiteralEq(left, right)), I)
      [] op.token_type = "EqualEqual" -> EOk(LitBoolean(LiteralEq(left, right)), I)
      [] OTHER -> EErr("invalid expression", I)

RECURSIVE evaluate_expression(_, _)
evaluate_expression(I, expr) ==
    CASE expr[1] = "Variable" ->
            LET g == get(I.env, expr[2].lexeme)
            IN  IF g.ok THEN EOk(g.v, I) ELSE EErr(g.cause, I)
      [] expr[1] = "Assignment" ->
            LET val == evaluate_expression(I, expr[3])
            IN  IF ~val.ok THEN val
                ELSE LET a == assign(val.I.env, expr[2].lexeme, val.v)
                     IN  IF ~a.ok THEN EErr(a.cause, val.I)
                         ELSE EOk(val.v, [val.I EXCEPT !.env = a.env])
      [] expr[1] = "Literal" -> EOk(expr[2], I)
      [] expr[1] = "Group" -> evaluate_expression(I, expr[2])
      [] expr[1] = "Unary" ->
            LET right == evaluate_expression(I, expr[3])
                op == expr[2]
            IN  IF ~right.ok THEN right
                ELSE CASE op.token_type = "Minus" ->
                            IF right.v.t = "Number" THEN EOk(NumNeg(right.v), right.I)
                            ELSE EErr("'-' can only be used on numerical values.", right.I)
                       [] op.token_type = "Bang" ->
                            EOk(LitBoolean(~is_truthy(right.v)), right.I)
                       [] OTHER -> EErr("unexpected operator " \o op.token_type, right.I)
      [] expr[1] = "Logical" ->
            LET left == evaluate_expression(I, expr[2])
                op == expr[3]
            IN  IF ~left.ok THEN left
                ELSE IF op.token_type = "Or" /\ is_truthy(left.v) THEN left
                ELSE IF op.token_type # "Or" /\ ~is_truthy(left.v) THEN left
                ELSE evaluate_expression(left.I, expr[4])
      [] expr[1] = "Binary" ->
            LET left == evaluate_expression(I, expr[2])
            IN  IF ~left.ok THEN left
                ELSE LET right == evaluate_expression(left.I, expr[4])
                     IN  IF ~right.ok THEN right
                         ELSE IF left.v.t = "Number" /\ right.v.t = "Number"
                         THEN BinaryNumbers(left.v, expr[3], right.v, right.I)
                         ELSE BinaryOthers(left.v, expr[3], right.v, right.I)

\* a block left normally as it would be if the scope of the block stayed current
RestoreEnv_keeps_scope(I, prev_env) == I

\* leaving a block normally: self.env = previous
RestoreEnv(I, prev_env) == [I EXCEPT !.env = SubSeq(@, 1, Len(prev_env))]

\* an evaluation point: the Block nodes around the statement, the scopes on the chain
LogPoint(I) == [I EXCEPT !.points = Append(@, <<I.blocks, Len(I.env)>>)]

\* the point at which a statement has returned Ok(())
LogReturn(r) == IF r.ok THEN [r EXCEPT !.I = LogPoint(@)] ELSE r

IntoBlock(I) == [I EXCEPT !.blocks = @ + 1]
OutOfBlock(I) == [I EXCEPT !.blocks = @ - 1]

RECURSIVE evaluate_statement(_, _), StatementArms(_, _), WhileLoop(_, _, _, _),
          BlockStmts(_, _), BlockStmts_runs_on(_, _)

\* the try_for_each of the Block arm as it would be without the test of the flag
BlockStmts_runs_on(I, stmts) ==
    IF stmts = <<>> THEN EOk(LitNone, I)
    ELSE LET r == evaluate_statement(I, Head(stmts))
         IN  IF ~r.ok THEN r ELSE BlockStmts_runs_on(r.I, Tail(stmts))

\* the while loop of the While arm, entered with the condition's value
WhileLoop(I, cond, stmt, literal) ==
    IF is_truthy(literal) /\ ~I.break_encountered
    THEN IF I.fuel = 0 THEN EErr("diverged", [I EXCEPT !.diverged = TRUE])
         ELSE LET body == evaluate_statement([I EXCEPT !.fuel = @ - 1], stmt)
              IN  IF ~body.ok THEN body
                  ELSE LET next == evaluate_expression(body.I, cond)
                       IN  IF ~next.ok THEN next
                           ELSE WhileLoop(next.I, cond, stmt, next.v)
    ELSE EOk(LitNone, [I EXCEPT !.break_encountered = FALSE])

\* the try_for_each of the Block arm
BlockStmts(I, stmts) ==
    IF stmts = <<>> THEN EOk(LitNone, I)
    ELSE IF I.break_encountered THEN BlockStmts(I, Tail(stmts))
    ELSE LET r == evaluate_statement(I, Head(stmts))
         IN  IF ~r.ok THEN r ELSE BlockStmts(r.I, Tail(stmts))

\* the match of evaluate_statement on the statement
StatementArms(I, stmt) ==
    CASE stmt[1] = "Break" -> EOk(LitNone, [I EXCEPT !.break_encountered = TRUE])
      [] stmt[1] = "If" ->
            LET condition == evaluate_expression(I, stmt[2])
            IN  IF ~condition.ok THEN condition
                ELSE IF is_truthy(condition.v) THEN evaluate_statement(condition.I, stmt[3])
                ELSE IF stmt[4] # None THEN evaluate_statement(condition.I, stmt[4][1])
                ELSE EOk(LitNone, condition.I)
      [] stmt[1] = "While" ->
            LET literal == evaluate_expression(I, stmt[2])
            IN  IF ~literal.ok THEN literal
                ELSE WhileLoop(literal.I, stmt[2], stmt[3], literal.v)
      [] stmt[1] = "Print" ->
            LET val == evaluate_expression(I, stmt[2])
            IN  IF ~val.ok THEN val
                ELSE EOk(LitNone, print_to_output(val.I, "print", DisplayLiteral(val.v)))
      [] stmt[1] = "Var" ->
            LET name == stmt[2].lexeme
                val == IF stmt[3] # None THEN evaluate_expression(I, stmt[3][1])
                       ELSE EOk(LitNone, I)
            IN  IF ~val.ok THEN val
                ELSE LET I1 == IF val.I.debug
                               THEN print_to_output(val.I, "echo",
                                        name \o " = " \o DisplayLiteral(val.v))
                               ELSE val.I
                     IN  EOk(LitNone, [I1 EXCEPT !.env = define(@, name, val.v)])
      [] stmt[1] = "Expr" ->
            LET res == evaluate_expression(I, stmt[2])
            IN  IF ~res.ok THEN res
                ELSE IF res.I.debug
                THEN EOk(LitNone, print_to_output(res.I, "echo", DisplayLiteral(res.v)))
                ELSE EOk(LitNone, res.I)
      [] stmt[1] = "Block" ->
            LET prev_env == I.env
                inner == IntoBlock([I EXCEPT !.env = Append(@, EnvironmentNew)])
                r == BlockStmts(inner, stmt[2])
            IN  IF ~r.ok THEN r
                ELSE EOk(LitNone, OutOfBlock(RestoreEnv(r.I, prev_env)))

evaluate_statement(I, stmt) == LogReturn(StatementArms(LogPoint(I), stmt))

\* interpret as it would be if a failing statement did not end the iteration
RECURSIVE interpret_skips_failures(_, _)
interpret_skips_failures(I, stmts) ==
    IF stmts = <<>> THEN EOk(LitNone, I)
    ELSE interpret_skips_failures(evaluate_statement(I, Head(stmts)).I, Tail(stmts))

\* Interpreter::interpret: the try_for_each over the statements
RECURSIVE interpret(_, _)
interpret(I, stmts) ==
    IF stmts = <<>> THEN EOk(LitNone, I)
    ELSE LET r == evaluate_statement(I, Head(stmts))
         IN  IF ~r.ok THEN r ELSE interpret(r.I, Tail(stmts))

----------------------------------------------------------------------------
(* Inputs *)

MaxFragments == 3   \* fragments per enumerated parser input
MaxSrcLen == 3      \* characters per enumerated scanner input
MaxLines == 2       \* prompt lines read in one interactive session

RECURSIVE Join(_)
Join(ws) ==
    IF ws = <<>> THEN ""
    ELSE IF Len(ws) = 1 THEN ws[1]
    ELSE ws[1] \o " " \o Join(Tail(ws))

SeqsUpTo(S, n) == UNION {[1..k -> S] : k \in 0..n}

\* pieces of programs; an enumerated parser input is some of them in a row
Fragments ==
    {"a", ";", ")", "print a", "break", "while (a)", "while (", "{", "}",
     "var b", "= 1", "for (;;)"}

\* programs that need more tokens than the enumeration reaches
ParserPrograms ==
    {"while (a) { while (a) a; break; }",
     "for (;;) { { if (a) break; } while (a) { a; } break; }",
     "while (a) { for (;;) a; if (a) { break; } else break; }",
     "while (a) a; break;",
     "while (a b; break;",
     "while (a b; print a; break;",
     "for (var i = 0; i < 3; i = i + 1) { if (i == 1) break; print i; }",
     "print 1; ); ); print 2;",
     "); a; ); a;",
     "); );",
     "1 +; 2 *;",
     "1 +; print 1; 2 *;",
     "var a = 1 print a a = 2 { var b print b }",
     "while (a) break",
     "print (1; { print 1; var = 2;",
     "print nil or \"hello\";",
     "class a; fun b; return 1; super; this;",
     "a = b = 3; print -!2 * (1 + 2) < 4 == true and false or nil;"}

\* two operators in a row between three operands, and unary operators in a row
BinaryLexemes == {"*", "/", "+", "-", "<", ">=", "==", "!=", "and", "or"}

PairSource(o1, o2) == "a " \o o1 \o " b " \o o2 \o " c;"

PrecedenceSources ==
    {PairSource(o1, o2) : o1 \in BinaryLexemes \cup {"="}, o2 \in BinaryLexemes}
      \cup {"a = b = 3;", "-!a;", "!-a * b;", "a - -b;", "print 2 + 2 * 5;",
            "print 4 / 2 - 3;"}

\* for statements with each of the three clauses present or missing
ForInits == {";", "var i = 0;", "i = 0;"}
ForConds == {"", "i < 2"}
ForIncrs == {"", "i = i + 1"}
ForBodies == {"print i;", "{ print i; }"}

ForSource(init, cond, incr, body) ==
    "for (" \o init \o cond \o ";" \o incr \o ") " \o body

ForSources ==
    {ForSource(init, cond, incr, body) :
        init \in ForInits, cond \in ForConds, incr \in ForIncrs, body \in ForBodies}

\* for loops whose run shows what they did and what is bound after them
ForPrograms ==
    {"var i = 9; for (var i = 0; i < 2; i = i + 1) print i; print i;",
     "for (var k = 0; k < 2; k = k + 1) print k; print k;",
     "var i = 0; for (; i < 2;) { print i; i = i + 1; } print i;",
     "var i = 0; for (;;) { print i; i = i + 1; if (i >= 2) break; }",
     "var i; for (i = 1; i < 3; i = i + 1) { print i; }"}

ParserSources ==
    {Join(ws) : ws \in SeqsUpTo(Fragments, MaxFragments)} \cup ParserPrograms
      \cup PrecedenceSources \cup ForSources \cup ForPrograms

ScanChars == {"a", "1", ".", "\"", "\n", "/", "=", " ", "#"}

ScannerPrograms ==
    {"var a1 = 25.50;\n// hi\nprint \"he\nllo\" != nil; 1. <= x",
     "(( )){} // here are some tokens!",
     "and super this some_var fun", "\"hello\" \"world!\"", "print \"abc", "a # b"}

RECURSIVE Concat(_)
Concat(ws) == IF ws = <<>> THEN "" ELSE ws[1] \o Concat(Tail(ws))

ScannerSources == {Concat(ws) : ws \in SeqsUpTo(ScanChars, MaxSrcLen)} \cup ScannerPrograms

\* the files the runner is started on
FilePrograms ==
    {"print 2 + 2 * 5;",
     "var a = \"global a\";\n{ var a = \"local a\"; print a; }\nprint a;",
     "var i = 0;\nwhile (i < 3) { print i; i = i + 1; }",
     "for (var i = 0; i < 3; i = i + 1) { if (i == 1) break; print i; }",
     "print nil or \"hello\";",
     "print 1 == \"1\";",
     "print \"a\" != \"b\"; print true == true; print \"x\" == false;",
     "print (2 + 4) == 6;",
     "print 1 != 2;",
     "var a = 1; { var b = a; print b; { var c; print -\"x\"; } } print a;",
     "print 1; print 2 < \"x\"; print 3;",
     "print 1; ); print 2;",
     "var a = 1; ); a; ); print a;",
     "var a = 1; print a",
     "print \"abc",
     "print 1; #",
     "var a = 1; while (a < 3) { a = a + 1; if (a > 1) break; } print a;",
     "",
     "var a = 1; a = a + 1; print a;",
     "var a = \"x\"; print a; \"b\nc",
     "print 1; class 1;",
     "print 1; super;",
     "print 1; this;",
     "print 1; return 1;",
     "print 1; fun;"}

\* the lines typed at the prompt (read_line returns them with their "\n")
PromptLines ==
    {"var a = 1", "{ var b = 2; print c; }", "print b", "print a", "a = a + 1",
     "a == 1", "print 1 +", "\"abc",
     "var a = 1; while (a < 2) { a = \"x\"; break; }", "{ print 1; }",
     "while (true) { print 2; break; }"}

----------------------------------------------------------------------------
(* The state machine *)

NoScanner == ScannerNew("")
NoParser == ParseStart(ParserNew(<<>>, "stdout", TRUE))

\* the lines among `lines` that go to stream `which` when the sink is `out`
To(which, out, lines) == IF out = which THEN lines ELSE <<>>

ScanErrorLine(r) ==
    Line("scan_error", r.cause \o " at " \o IntToStr(r.location.line) \o ":"
                       \o IntToStr(r.location.column))

\* Runner::new(Some(path)) on an existing path, or Runner::new(None)
Init ==
    /\ harness = "runner"
    /\ mode \in {"file", "repl"}
    /\ pc = "start"
    /\ content = ""
    /\ strict = TRUE
    /\ scanner = NoScanner
    /\ scanres = "none"
    /\ parser = NoParser
    /\ interp = InterpreterNew("stderr")
    /\ todo = <<>>
    /\ stdout = <<>>
    /\ stderr = <<>>
    /\ result = "none"
    /\ nlines = 0

\* Parser::new(tokens, std::io::stdout(), strict) on the tokens of a scanned source
InitParser ==
    /\ harness = "parser"
    /\ mode = "none"
    /\ pc = "parse"
    /\ content \in ParserSources
    /\ strict \in BOOLEAN
    /\ scanner = ScannerRunOp(ScannerNew(content)).s
    /\ scanres = "Ok"
    /\ parser = ParseStart(ParserNew(scanner.tokens, "stdout", strict))
    /\ interp = InterpreterNew("stderr")
    /\ todo = <<>>
    /\ stdout = <<>>
    /\ stderr = <<>>
    /\ result = "none"
    /\ nlines = 0

\* Scanner::new(source)
InitScanner ==
    /\ harness = "scanner"
    /\ mode = "none"
    /\ pc = "scan"
    /\ content \in ScannerSources
    /\ strict = TRUE
    /\ scanner = ScannerNew(content)
    /\ scanres = "none"
    /\ parser = NoParser
    /\ interp = InterpreterNew("stderr")
    /\ todo = <<>>
    /\ stdout = <<>>
    /\ stderr = <<>>
    /\ result = "none"
    /\ nlines = 0

\* the operands and operators of the binary expressions evaluated on their own
EvalLiterals ==
    {LitNone, LitBoolean(TRUE), LitBoolean(FALSE), LitString(""), LitString("1"),
     LitString("a"), LitInt(0), LitInt(1), LitInt(6), LitNumber(1, 2), LitInt(-1),
     LitNumber(1, 0), NaN}

EvalOperators == {"==", "!=", "+", "-", "*", "/", ">", ">=", "<", "<="}

\* the token the scanner makes of an operator's lexeme
OperatorToken(lexeme) == ScannerRunOp(ScannerNew(lexeme)).s.tokens[1]

EvalOperands ==
    {ExprLiteral(l) : l \in EvalLiterals}
      \cup {ExprGroup(ExprBinary(ExprLiteral(LitInt(2)), OperatorToken("+"),
                                 ExprLiteral(LitInt(4))))}

EvalExpressions ==
    {ExprBinary(l, OperatorToken(o), r) : l \in EvalOperands, o \in EvalOperators,
                                          r \in EvalOperands}

\* the same for the logical and the unary operators: a literal on the left of
\* `or` / `and`, and on the right a literal, an assignment that succeeds, an
\* assignment to an undefined name or a negated string
RightOperands ==
    {ExprLiteral(LitInt(6)),
     ExprGroup(ExprAssignment(OperatorToken("a"), ExprLiteral(LitInt(1)))),
     ExprGroup(ExprAssignment(OperatorToken("c"), ExprLiteral(LitInt(1)))),
     ExprUnary(OperatorToken("-"), ExprLiteral(LitString("x")))}

LogicalExpressions ==
    {ExprLogical(ExprLiteral(l), OperatorToken(o), r) :
        l \in EvalLiterals, o \in {"or", "and"}, r \in RightOperands}

UnaryExpressions ==
    {ExprUnary(OperatorToken(o), ExprLiteral(l)) : o \in {"!", "-"}, l \in EvalLiterals}

\* binary expressions whose right operand reads what the left operand assigns
OrderExpressions ==
    {ExprBinary(ExprGroup(ExprAssignment(OperatorToken("a"), ExprLiteral(l))),
                OperatorToken(o),
                ExprGroup(ExprAssignment(OperatorToken("b"),
                                         ExprVariable(OperatorToken("a"))))) :
        l \in {LitInt(1), LitString("x"), LitNone}, o \in {"+", "-", "*", "<", ">="}}

\* assignments to a and b, which are bound, of values of every variant and of
\* expressions that read the variable assigned, assign in turn, or fail
AssignExpressions ==
    {ExprAssignment(OperatorToken(n), e) :
        n \in {"a", "b"},
        e \in {ExprLiteral(l) : l \in EvalLiterals}
                \cup {ExprBinary(ExprVariable(OperatorToken("a")), OperatorToken("+"),
                                 ExprLiteral(LitInt(3))),
                      ExprAssignment(OperatorToken("b"), ExprLiteral(LitString("x"))),
                      ExprUnary(OperatorToken("-"), ExprLiteral(LitString("x")))}}

AssignSource == "var a=1;{var b;{print a=3;print b=a+1;}print b;}print a;"

\* the statements the parser makes of a source
ProgramOf(src) == parse(ParserNew(ScannerRunOp(ScannerNew(src)).s.tokens, "stdout", TRUE)).ret

Branch(l) ==
    <<StmtIf(ExprLiteral(l), StmtPrint(ExprLiteral(LitString("then"))),
             Some(StmtPrint(ExprLiteral(LitString("else")))))>>

OnePass(l) ==
    <<StmtWhile(ExprLiteral(l),
                StmtBlock(<<StmtPrint(ExprLiteral(LitString("body"))), StmtBreak>>))>>

EvalSources ==
    {"print 1; var a = 1; { a = 2; print a; print -\"x\"; print 3; } print 4;",
     "var a = 1; { var b = 2; { var a = 3; a = a + b; print a; } b = a; print b; } print a;",
     "var a = \"hello\"; { var a = \"world\"; } print a;",
     "var i = 0; while (i < 3) { { if (i > 0) { break; } print i; } i = i + 1; } { print i; }",
     "for (var i = 0; i < 2; i = i + 1) { { print i; } }",
     "{ { { print 1; } } print 2; } print 3;",
     "print 1; print a; print 2;",
     "var a = 1; a = 2; b = 3; a = 4;",
     "var a = 1; print (a = 2) < (a = \"x\"); print 3;",
     "var a; if (a) print 1; else { print 2; { a = 3; } } while (a < 9) a = a * a; print a;",
     "print 1;",
     ""}

\* an outer loop of n passes around a loop that breaks when j reaches k, the
\* break two blocks deep in the body and statements after it in both blocks
InnerBreak(n, k) ==
    "var i=0;while(i<" \o IntToStr(n) \o "){var j=0;while(j<3){"
      \o "{if(j>=" \o IntToStr(k) \o "){break;}print j;}j=j+1;"
      \o "print \"next\";}print \"after\";i=i+1;}"

\* a for loop that breaks when j reaches k; j is declared outside the loop
ForBreak(k) ==
    "var j=0;for(;j<3;j=j+1){if(j>=" \o IntToStr(k) \o ")break;print j;}print j;"

BreakSources ==
    {InnerBreak(n, k) : n \in 1..2, k \in 0..1} \cup {ForBreak(k) : k \in 0..2}

\* the programs interpreted on their own
EvalPrograms ==
    {ProgramOf(src) : src \in EvalSources \cup BreakSources \cup {AssignSource}}
      \cup {Branch(l) : l \in EvalLiterals} \cup {OnePass(l) : l \in EvalLiterals}

\* the interpreter after `var a = 0; var b = 0;`
EvalInterpreter ==
    [InterpreterNew("stdout") EXCEPT
        !.env = define(define(@, "a", LitInt(0)), "b", LitInt(0))]

\* Interpreter::new(out) and an expression for it to evaluate, or a program for
\* it to interpret
InitEval ==
    /\ harness = "eval"
    /\ mode = "none"
    /\ pc \in {"eval", "exec"}
    /\ content = ""
    /\ strict = TRUE
    /\ scanner = NoScanner
    /\ scanres = "none"
    /\ parser = NoParser
    /\ interp = IF pc = "eval" THEN EvalInterpreter ELSE InterpreterNew("stdout")
    /\ todo \in IF pc = "eval"
                THEN EvalExpressions \cup LogicalExpressions \cup UnaryExpressions
                       \cup OrderExpressions \cup AssignExpressions
                ELSE EvalPrograms
    /\ stdout = <<>>
    /\ stderr = <<>>
    /\ result = "none"
    /\ nlines = 0

\* where Runner::run would go if _run_repl returned after every line
AfterRun_leaves_the_loop == "exit"

\* where Runner::run goes once _run has returned Ok(())
AfterRun == IF mode = "file" THEN "exit" ELSE "prompt"
ResultAfterRun == IF mode = "file" THEN "Ok" ELSE result

\* Runner::run in file mode: read the file and hand its content to _run
RunFile ==
    /\ harness = "runner" /\ pc = "start" /\ mode = "file"
    /\ \E c \in FilePrograms : content' = c
    /\ strict' = TRUE
    /\ pc' = "scan"
    /\ UNCHANGED <<harness, mode, scanner, scanres, parser, interp, todo, stdout,
                   stderr, result, nlines>>

\* Runner::run in file mode when read_to_string fails
RunFileUnreadable ==
    /\ harness = "runner" /\ pc = "start" /\ mode = "file"
    /\ result' = "Err"
    /\ pc' = "exit"
    /\ UNCHANGED <<harness, mode, content, strict, scanner, scanres, parser, interp,
                   todo, stdout, stderr, nlines>>

\* Runner::run without a source: _run_repl switches debug on and enters its loop
RunRepl ==
    /\ harness = "runner" /\ pc = "start" /\ mode = "repl"
    /\ interp' = [interp EXCEPT !.debug = TRUE]
    /\ pc' = "prompt"
    /\ UNCHANGED <<harness, mode, content, strict, scanner, scanres, parser, todo,
                   stdout, stderr, result, nlines>>

\* standard input has reached its end: the last read_line returned no character
AtEof == mode = "repl" /\ nlines > 0 /\ content = ""

\* one pass of the loop of _run_repl up to the call of _run: prompt, read a line
ReplReadLine ==
    /\ harness = "runner" /\ pc = "prompt" /\ nlines < MaxLines /\ ~AtEof
    /\ \E line \in {l \o "\n" : l \in PromptLines} \cup {"\n"} :
          /\ content' = line
          /\ IF line = "\n"
             THEN /\ result' = "Ok" /\ pc' = "exit"
             ELSE /\ result' = result /\ pc' = "scan"
    /\ strict' = FALSE
    /\ stdout' = Append(stdout, Line("prompt", "> "))
    /\ nlines' = nlines + 1
    /\ UNCHANGED <<harness, mode, scanner, scanres, parser, interp, todo, stderr>>

\* the same pass when standard input is at its end: read_line returns Ok(0) and
\* leaves expr empty, which is not "\n", so _run is called on the empty text.
\* Every later read finds the end again; the prompts written by those repeated
\* passes are not recorded.
ReplReadEof ==
    /\ harness = "runner" /\ pc = "prompt" /\ (AtEof \/ nlines < MaxLines)
    /\ content' = ""
    /\ strict' = FALSE
    /\ pc' = "scan"
    /\ stdout' = IF AtEof THEN stdout ELSE Append(stdout, Line("prompt", "> "))
    /\ nlines' = IF AtEof THEN nlines ELSE nlines + 1
    /\ UNCHANGED <<harness, mode, scanner, scanres, parser, interp, todo, stderr,
                   result>>

\* the same pass when flush() or read_line() fails: the `?` returns the
\* RunnerError out of the loop
ReplIoFails ==
    /\ harness = "runner" /\ pc = "prompt" /\ nlines < MaxLines /\ ~AtEof
    /\ stdout' = Append(stdout, Line("prompt", "> "))
    /\ result' = "Err"
    /\ pc' = "exit"
    /\ nlines' = nlines + 1
    /\ UNCHANGED <<harness, mode, content, strict, scanner, scanres, parser, interp,
                   todo, stderr>>

\* _run: Scanner::new(content).run(), then Parser::new(s.tokens, io::stdout(), strict)
RunnerScan ==
    /\ harness = "runner" /\ pc = "scan"
    /\ \E r \in {ScannerRunOp(ScannerNew(content))} :
           /\ scanner' = r.s
           /\ scanres' = IF r.ok THEN "Ok" ELSE "Err"
           /\ IF r.ok
              THEN /\ parser' = ParseStart(ParserNew(r.s.tokens, "stdout", strict))
                   /\ pc' = "parse"
                   /\ UNCHANGED <<stdout, result>>
              ELSE /\ stdout' = Append(stdout, ScanErrorLine(r))
                   /\ pc' = AfterRun
                   /\ result' = ResultAfterRun
                   /\ UNCHANGED parser
    /\ UNCHANGED <<harness, mode, content, strict, interp, todo, stderr, nlines>>

\* Scanner::run called on a scanner, for the first time or again
ScannerRun ==
    /\ harness = "scanner" /\ pc \in {"scan", "scanned"}
    /\ \E r \in {ScannerRunOp(scanner)} :
           /\ scanner' = r.s
           /\ scanres' = IF r.ok THEN "Ok" ELSE "Err"
    /\ pc' = "scanned"
    /\ nlines' = IF nlines < MaxLines THEN nlines + 1 ELSE nlines
    /\ UNCHANGED <<harness, mode, content, strict, parser, interp, todo, stdout,
                   stderr, result>>

\* Interpreter::evaluate_expression on the expression
Evaluate ==
    /\ harness = "eval" /\ pc = "eval"
    /\ \E r \in {evaluate_expression(interp, todo)} :
           /\ interp' = r.I
           /\ result' = [ok |-> r.ok, v |-> r.v, cause |-> r.cause]
    /\ pc' = "evaluated"
    /\ UNCHANGED <<harness, mode, content, strict, scanner, scanres, parser, todo,
                   stdout, stderr, nlines>>

\* Interpreter::interpret on the statements
Interpret ==
    /\ harness = "eval" /\ pc = "exec"
    /\ \E r \in {interpret(interp, todo)} :
           /\ interp' = [r.I EXCEPT !.written = <<>>]
           /\ stdout' = stdout \o To("stdout", r.I.out, r.I.written)
           /\ stderr' = stderr \o To("stderr", r.I.out, r.I.written)
           /\ result' = [ok |-> r.ok, v |-> r.v, cause |-> r.cause]
           /\ pc' = IF r.I.diverged THEN "hung" ELSE "executed"
    /\ UNCHANGED <<harness, mode, content, strict, scanner, scanres, parser, todo,
                   nlines>>

\* one iteration of the loop of Parser::parse
ParseStep ==
    /\ harness \in {"runner", "parser"} /\ pc = "parse"
    /\ ~is_at_end(parser.p)
    /\ \E run \in {ParseIter(parser)} :
           /\ parser' = [run EXCEPT !.p.written = <<>>, !.p.err = <<>>]
           /\ stdout' = stdout \o To("stdout", run.p.out, run.p.written)
           /\ stderr' = stderr \o To("stderr", run.p.out, run.p.written) \o run.p.err
    /\ UNCHANGED <<harness, mode, pc, content, strict, scanner, scanres, interp, todo,
                   result, nlines>>

\* the end of Parser::parse; in the runner its result goes to interpret()
ParseFinish ==
    /\ harness \in {"runner", "parser"} /\ pc = "parse"
    /\ is_at_end(parser.p)
    /\ \E run \in {ParseReturn(parser)} :
           /\ parser' = run
           /\ todo' = IF harness = "runner" THEN run.ret ELSE todo
    /\ interp' = [interp EXCEPT !.fuel = MaxLoopIters, !.blocks = 0, !.points = <<>>]
    /\ pc' = IF harness = "runner" THEN "interpret" ELSE "parsed"
    /\ UNCHANGED <<harness, mode, content, strict, scanner, scanres, stdout, stderr,
                   result, nlines>>

\* one step of the try_for_each of Interpreter::interpret; on an error _run
\* writes it with eprintln! and returns Ok(())
InterpretStep ==
    /\ harness = "runner" /\ pc = "interpret" /\ todo # <<>>
    /\ \E r \in {evaluate_statement(interp, Head(todo))} :
           /\ interp' = [r.I EXCEPT !.written = <<>>]
           /\ stdout' = stdout \o To("stdout", r.I.out, r.I.written)
           /\ IF r.ok
              THEN /\ todo' = Tail(todo)
                   /\ stderr' = stderr \o To("stderr", r.I.out, r.I.written)
                   /\ UNCHANGED <<pc, result>>
              ELSE IF r.I.diverged
              THEN /\ todo' = todo
                   /\ stderr' = stderr \o To("stderr", r.I.out, r.I.written)
                   /\ pc' = "hung"
                   /\ UNCHANGED result
              ELSE /\ todo' = <<>>
                   /\ stderr' = stderr \o To("stderr", r.I.out, r.I.written)
                                  \o <<Line("runtime_error", r.cause)>>
                   /\ pc' = AfterRun
                   /\ result' = ResultAfterRun
    /\ UNCHANGED <<harness, mode, content, strict, scanner, scanres, parser, nlines>>

\* interpret() returns Ok(()) and so does _run
InterpretFinish ==
    /\ harness = "runner" /\ pc = "interpret" /\ todo = <<>>
    /\ pc' = AfterRun
    /\ result' = ResultAfterRun
    /\ UNCHANGED <<harness, mode, content, strict, scanner, scanres, parser, interp,
                   todo, stdout, stderr, nlines>>

Next ==
    \/ RunFile
    \/ RunFileUnreadable
    \/ RunRepl
    \/ ReplReadLine
    \/ ReplReadEof
    \/ ReplIoFails
    \/ RunnerScan
    \/ ParseStep
    \/ ParseFinish
    \/ InterpretStep
    \/ InterpretFinish

Spec == Init /\ [][Next]_vars

\* the runner as a running process: _run_repl, _run, parse and interpret are
\* sequential code, so the step the program counter stands at is taken.  For
\* the three steps that run a whole pass, weak fairness is written out
\* ([]<>~ENABLED <<A>>_vars \/ []<><<A>>_vars) with the action's guard in the
\* place of ENABLED.
ScanPending == harness = "runner" /\ pc = "scan"

DeclarationPending == harness \in {"runner", "parser"} /\ pc = "parse" /\ ~is_at_end(parser.p)

StatementPending == harness = "runner" /\ pc = "interpret" /\ todo # <<>>

SpecLive ==
    /\ Init /\ [][Next]_vars
    /\ WF_vars(ReplReadEof) /\ WF_vars(ParseFinish) /\ WF_vars(InterpretFinish)
    /\ ([]<>~ScanPending \/ []<><<RunnerScan>>_vars)
    /\ ([]<>~DeclarationPending \/ []<><<ParseStep>>_vars)
    /\ ([]<>~StatementPending \/ []<><<InterpretStep>>_vars)

NextParser == ParseStep \/ ParseFinish

SpecParser == InitParser /\ [][NextParser]_vars

NextScanner == ScannerRun

SpecScanner == InitScanner /\ [][NextScanner]_vars

NextEval == Evaluate \/ Interpret

SpecEval == InitEval /\ [][NextEval]_vars

\* The environment on its own, driven as the interpreter drives it: a block
\* is entered and left, names are defined, assigned and read.
MaxDepth == 3   \* scopes on the chain, the root included

EnvNames == {"a", "b"}

EnvValues == {LitString("hello"), LitString("world")}

\* Interpreter::new, before anything is evaluated
InitEnv ==
    /\ harness = "env"
    /\ mode = "none"
    /\ pc = "env"
    /\ content = ""
    /\ strict = TRUE
    /\ scanner = NoScanner
    /\ scanres = "none"
    /\ parser = NoParser
    /\ interp = InterpreterNew("stdout")
    /\ todo = <<"new", "", LitNone>>
    /\ stdout = <<>>
    /\ stderr = <<>>
    /\ result = [ok |-> TRUE, v |-> LitNone, cause |-> ""]
    /\ nlines = 0

\* entry of a Block: a new scope that encloses the current one becomes current
EnvEnterBlock ==
    /\ harness = "env" /\ Len(interp.env) < MaxDepth
    /\ interp' = [interp EXCEPT !.env = Append(@, EnvironmentNew)]
    /\ todo' = <<"enter", "", LitNone>>
    /\ result' = [ok |-> TRUE, v |-> LitNone, cause |-> ""]
    /\ UNCHANGED <<harness, mode, pc, content, strict, scanner, scanres, parser,
                   stdout, stderr, nlines>>

\* normal exit of a Block: the scope that was current before it is current again
EnvLeaveBlock ==
    /\ harness = "env" /\ Len(interp.env) > 1
    /\ interp' = RestoreEnv(interp, SubSeq(interp.env, 1, Len(interp.env) - 1))
    /\ todo' = <<"leave", "", LitNone>>
    /\ result' = [ok |-> TRUE, v |-> LitNone, cause |-> ""]
    /\ UNCHANGED <<harness, mode, pc, content, strict, scanner, scanres, parser,
                   stdout, stderr, nlines>>

\* self.env.lock().unwrap().define(name, val)
EnvDefine ==
    /\ harness = "env"
    /\ \E k \in EnvNames, v \in EnvValues :
          /\ interp' = [interp EXCEPT !.env = define(@, k, v)]
          /\ todo' = <<"define", k, v>>
    /\ result' = [ok |-> TRUE, v |-> LitNone, cause |-> ""]
    /\ UNCHANGED <<harness, mode, pc, content, strict, scanner, scanres, parser,
                   stdout, stderr, nlines>>

\* self.env.lock().unwrap().assign(name, val)
EnvAssign ==
    /\ harness = "env"
    /\ \E k \in EnvNames, v \in EnvValues :
          \E r \in {assign(interp.env, k, v)} :
             /\ interp' = [interp EXCEPT !.env = r.env]
             /\ todo' = <<"assign", k, v>>
             /\ result' = [ok |-> r.ok, v |-> LitNone, cause |-> r.cause]
    /\ UNCHANGED <<harness, mode, pc, content, strict, scanner, scanres, parser,
                   stdout, stderr, nlines>>

\* self.env.lock().unwrap().get(&name)
EnvGet ==
    /\ harness = "env"
    /\ \E k \in EnvNames :
          \E r \in {get(interp.env, k)} :
             /\ todo' = <<"get", k, LitNone>>
             /\ result' = [ok |-> r.ok, v |-> r.v, cause |-> r.cause]
    /\ UNCHANGED <<harness, mode, pc, content, strict, scanner, scanres, parser,
                   interp, stdout, stderr, nlines>>

NextEnv == EnvEnterBlock \/ EnvLeaveBlock \/ EnvDefine \/ EnvAssign \/ EnvGet

SpecEnv == InitEnv /\ [][NextEnv]_vars

----------------------------------------------------------------------------
(* Properties *)

KindsOf(stream) == {stream[i].kind : i \in DOMAIN stream}

CountKind(stream, kind) == Cardinality({i \in DOMAIN stream : stream[i].kind = kind})

\* C1: whenever Interpreter::interpret has returned, with Ok or with Err, the
\* current environment is the scope that was current before the call; the
\* runner's interpreter starts in the root scope, so it is back in the root
\* scope, and no scope of a block that failed stays visible.
C1_ScopeRestoredWhenInterpretReturns ==
    (harness = "runner" /\ pc \in {"prompt", "exit"}) => Len(interp.env) = 1

\* C2: a Binary expression with `==` or `!=` never raises a runtime error; it
\* yields Boolean(l equals r), resp. Boolean(not (l equals r)), under the
\* per-variant equality of the values of its operands.
OperandValue(expr) == evaluate_expression(InterpreterNew("stdout"), expr).v

C2_EqualityNeverErrors ==
    (harness = "eval" /\ pc = "evaluated" /\ todo[1] = "Binary"
       /\ todo[3].token_type \in {"EqualEqual", "BangEqual"})
    => /\ result.ok
       /\ result.v = LitBoolean((todo[3].token_type = "EqualEqual")
                                  <=> LiteralEq(OperandValue(todo[2]),
                                                OperandValue(todo[4])))

\* C3: `nil` is a primary expression that evaluates to the Nil value: the file
\* `print nil or "hello";` parses without error and prints hello.
NilProgram == "print nil or \"hello\";"

C3_NilIsAPrimary ==
    (harness = "runner" /\ mode = "file" /\ content = NilProgram /\ pc = "exit")
    => /\ ~parser.error
       /\ \E i \in DOMAIN (stdout \o stderr) :
             (stdout \o stderr)[i] = Line("print", "hello")

\* C4: in file mode Runner::run returns Err whenever the evaluation of the
\* program raised a runtime error.
C4_FileModeFailsOnRuntimeError ==
    (harness = "runner" /\ mode = "file" /\ pc = "exit"
       /\ "runtime_error" \in KindsOf(stdout \o stderr))
    => result = "Err"

\* C5: run through the Runner, what `print` and the interactive echo write goes
\* to standard output and every scanner and parser diagnostic to standard error:
\* standard output carries no diagnostic, standard error no print output.
C5_PrintAndDiagnosticsApart ==
    harness = "runner"
    => /\ KindsOf(stdout) \subseteq {"print", "echo", "prompt"}
       /\ KindsOf(stderr) \cap {"print", "echo"} = {}

\* C6: once a declaration has failed to parse, parse() returns the empty list,
\* whatever parsed before or after it, and the interpreter then executes
\* nothing: it writes nothing and its state stays as it was.
C6_ParseErrorRunsNothing ==
    /\ []((harness = "runner" /\ parser.error /\ parser.returned)
            => (parser.ret = <<>> /\ todo = <<>>))
    /\ [][(harness = "runner" /\ parser.error /\ pc = "interpret")
            => (interp' = interp /\ stdout' = stdout /\ stderr' = stderr)]_vars

C6_FailedBetweenGoodStatements ==
    /\ harness = "runner" /\ mode = "file" /\ pc = "exit"
    /\ content = "print 1; ); print 2;"
    /\ parser.error /\ parser.returned /\ parser.ret = <<>>
    /\ "print" \notin KindsOf(stdout \o stderr)

\* C7: synchronize stops once a `;` has been consumed, so a program of two
\* erroneous expression statements, each ended by `;` and followed by no
\* keyword, gets two diagnostics, one per statement.
TwoBadStatements == {"); );", "1 +; 2 *;", "); a; ); a;"}

C7_TwoErrorsTwoDiagnostics ==
    (harness = "parser" /\ content \in TwoBadStatements /\ parser.returned)
    => CountKind(stdout, "parse_error") = 2

\* the `break`s of a statement, and those of them outside every loop of it
RECURSIVE BreakCount(_), BreakCountSeq(_), LooseBreaks(_), LooseBreaksSeq(_)
BreakCount(stmt) ==
    CASE stmt[1] = "Break" -> 1
      [] stmt[1] = "If" ->
            BreakCount(stmt[3]) + (IF stmt[4] # None THEN BreakCount(stmt[4][1]) ELSE 0)
      [] stmt[1] = "While" -> BreakCount(stmt[3])
      [] stmt[1] = "Block" -> BreakCountSeq(stmt[2])
      [] OTHER -> 0

BreakCountSeq(stmts) ==
    IF stmts = <<>> THEN 0 ELSE BreakCount(Head(stmts)) + BreakCountSeq(Tail(stmts))

LooseBreaks(stmt) ==
    CASE stmt[1] = "Break" -> 1
      [] stmt[1] = "If" ->
            LooseBreaks(stmt[3]) + (IF stmt[4] # None THEN LooseBreaks(stmt[4][1]) ELSE 0)
      [] stmt[1] = "Block" -> LooseBreaksSeq(stmt[2])
      [] OTHER -> 0

LooseBreaksSeq(stmts) ==
    IF stmts = <<>> THEN 0 ELSE LooseBreaks(Head(stmts)) + LooseBreaksSeq(Tail(stmts))

\* C8: a `break` read outside the body of every loop makes parse() write a
\* diagnostic and return the empty list; a `break` read inside a loop body, at
\* any depth and also after an inner loop has ended, passes, and the statements
\* of a parse without error hold one Break per `break` read, each inside a loop.
C8_BreakOnlyInsideLoops ==
    harness = "parser"
    => /\ \A i \in DOMAIN parser.p.breaks :
             parser.p.breaks[i][1] > 0 => parser.p.breaks[i][2]
       /\ (\E i \in DOMAIN parser.p.breaks : parser.p.breaks[i][1] = 0)
             => /\ parser.error
                /\ CountKind(stdout, "parse_error") >= 1
                /\ parser.returned => parser.ret = <<>>
       /\ (parser.returned /\ ~parser.error)
             => /\ BreakCountSeq(parser.ret) = Len(parser.p.breaks)
                /\ LooseBreaksSeq(parser.ret) = 0

C8_BreakAfterInnerLoop ==
    /\ harness = "parser" /\ content = "while (a) { while (a) a; break; }"
    /\ parser.returned /\ ~parser.error
    /\ parser.p.breaks = <<<<1, TRUE>>>>
    /\ BreakCountSeq(parser.ret) = 1

\* the token list with a `;` put at every place where consume() made one up
SemicolonToken == ScannerRunOp(ScannerNew(";")).s.tokens[1]

RECURSIVE Patch(_, _)
Patch(tokens, synth) ==
    IF synth = <<>> THEN tokens
    ELSE Patch(SubSeq(tokens, 1, synth[Len(synth)][1]) \o <<SemicolonToken>>
                 \o SubSeq(tokens, synth[Len(synth)][1] + 1, Len(tokens)),
               SubSeq(synth, 1, Len(synth) - 1))

StrictParse(tokens) == parse(ParserNew(tokens, "stdout", TRUE))

\* C9: with strict = true nothing is made up, and a token list in which the
\* lenient parser had to make up a `;` is a parse error; with strict = false the
\* parse gives the statements the strict parse gives once the `;` are put in;
\* in neither mode is any token but `;` made up.
C9_OnlyMissingSemicolonForgiven ==
    harness = "parser"
    => /\ strict => parser.p.synth = <<>>
       /\ \A i \in DOMAIN parser.p.synth : parser.p.synth[i][2] = "Semicolon"
       /\ (parser.returned /\ ~strict)
             => /\ parser.p.synth # <<>> => StrictParse(parser.p.tokens).error
                /\ StrictParse(Patch(parser.p.tokens, parser.p.synth)).ret = parser.ret
                /\ StrictParse(Patch(parser.p.tokens, parser.p.synth)).error
                      = parser.error

C9_LenientParseWithoutSemicolons ==
    /\ harness = "parser" /\ ~strict /\ parser.returned /\ ~parser.error
    /\ Len(parser.p.synth) >= 3
    /\ Len(parser.ret) >= 3
    /\ StrictParse(parser.p.tokens).error

EofOnlyLast(tokens) ==
    /\ tokens # <<>>
    /\ \A i \in DOMAIN tokens : (tokens[i].token_type = "Eof") <=> (i = Len(tokens))

\* C10: after a run() that succeeded the token list ends with an Eof and holds
\* no other Eof, and a further run() leaves the token list as it is.
C10_OneEofAtTheEnd ==
    /\ []((harness = "scanner" /\ scanres = "Ok") => EofOnlyLast(scanner.tokens))
    /\ [][(harness = "scanner" /\ scanres = "Ok")
            => scanner'.tokens = scanner.tokens]_vars

C10_RunAgainAfterFinish ==
    /\ harness = "scanner" /\ scanres = "Ok" /\ nlines >= 2
    /\ Len(scanner.tokens) >= 3
    /\ EofOnlyLast(scanner.tokens)

\* the line-th line of a source, counted from 1, without its "\n"
RECURSIVE SourceLine(_, _)
SourceLine(src, line) ==
    LET nl == {i \in 1..Len(src) : Ch(src, i) = "\n"}
        first == CHOOSE i \in nl : \A j \in nl : i <= j
    IN  IF line <= 1 THEN (IF nl = {} THEN src ELSE SubSeq(src, 1, first - 1))
        ELSE IF nl = {} THEN ""
        ELSE SourceLine(SubSeq(src, first + 1, Len(src)), line - 1)

LocNotAfter(a, b) == a.line < b.line \/ (a.line = b.line /\ a.column <= b.column)

\* C11: every token has line >= 1 and column >= 1, the column being the
\* position, counted from 1, of the token in its line (a token that is not a
\* string and not Eof is found there in the source), and the locations never
\* decrease in the order of emission.
C11_TokenLocationsOneBased ==
    harness = "scanner"
    => \A i \in DOMAIN scanner.tokens :
          /\ scanner.tokens[i].loc.line >= 1
          /\ scanner.tokens[i].loc.column >= 1
          /\ scanner.tokens[i].token_type \notin {"String", "Eof"}
                => /\ scanner.tokens[i].loc.column + scanner.tokens[i].loc.len - 1
                         <= Len(SourceLine(content, scanner.tokens[i].loc.line))
                   /\ SubSeq(SourceLine(content, scanner.tokens[i].loc.line),
                             scanner.tokens[i].loc.column,
                             scanner.tokens[i].loc.column + scanner.tokens[i].loc.len - 1)
                         = scanner.tokens[i].lexeme
          /\ i > 1 => LocNotAfter(scanner.tokens[i - 1].loc, scanner.tokens[i].loc)

\* the same with columns counted from 0 over the whole source, as the scanner
\* counts them: holds, so lines and the order of emission are as claimed
C11_ColumnsAreOffsets ==
    harness = "scanner"
    => \A i \in DOMAIN scanner.tokens :
          /\ scanner.tokens[i].loc.line >= 1
          /\ scanner.tokens[i].token_type \notin {"String", "Eof"}
                => SubSeq(content, scanner.tokens[i].loc.column + 1,
                          scanner.tokens[i].loc.column + scanner.tokens[i].loc.len)
                      = scanner.tokens[i].lexeme
          /\ i > 1 => LocNotAfter(scanner.tokens[i - 1].loc, scanner.tokens[i].loc)

Quotes(src) == {i \in 1..Len(src) : Ch(src, i) = "\""}

\* the source ends inside a string literal: its last quote opens one (no
\* comment being there to hide a quote), and what is before that quote scans
OpensString(src) ==
    /\ Cardinality(Quotes(src)) % 2 = 1
    /\ \A i \in 1..Len(src) : Ch(src, i) # "/"

BeforeOpenQuote(src) ==
    SubSeq(src, 1, (CHOOSE i \in Quotes(src) : \A j \in Quotes(src) : j <= i) - 1)

ButLast(seq) == SubSeq(seq, 1, Len(seq) - 1)

\* C12: when the source ends inside a string literal, Scanner::run returns the
\* error `unterminated string`; the tokens are those of the text before the
\* opening quote, with no token for the literal and no Eof; and the runner
\* reports the error and neither parses nor executes anything.
C12_UnterminatedStringStopsTheRun ==
    [][(harness = "runner" /\ pc = "scan" /\ OpensString(content)
          /\ ScannerRunOp(ScannerNew(BeforeOpenQuote(content))).ok)
       => /\ scanres' = "Err"
          /\ scanner'.tokens
                = ButLast(ScannerRunOp(ScannerNew(BeforeOpenQuote(content))).s.tokens)
          /\ \A i \in DOMAIN scanner'.tokens : scanner'.tokens[i].token_type # "Eof"
          /\ Len(stdout' \o stderr') = Len(stdout \o stderr) + 1
          /\ \E i \in DOMAIN (stdout' \o stderr') :
                /\ (stdout' \o stderr')[i].kind = "scan_error"
                /\ SubSeq((stdout' \o stderr')[i].text, 1, 19) = "unterminated string"
          /\ parser' = parser /\ interp' = interp /\ todo' = todo
          /\ pc' \in {"exit", "prompt"}]_vars

C12_TokensBeforeTheQuoteOnly ==
    /\ harness = "runner" /\ mode = "file" /\ pc = "exit"
    /\ content = "var a = \"x\"; print a; \"b\nc"
    /\ scanres = "Err"
    /\ Len(scanner.tokens) = 8
    /\ scanner.tokens[4].token_type = "String"
    /\ scanner.tokens[8].token_type = "Semicolon"
    /\ parser = NoParser
    /\ KindsOf(stdout \o stderr) = {"scan_error"}

ReservedWords == {"class", "super", "this", "fun", "return"}

\* a file whose second statement begins with a reserved word
ReservedProgram(w) == "print 1; " \o w \o (IF w \in {"class", "return"} THEN " 1;" ELSE ";")

\* C13: each of class, super, this, fun, return is scanned to a keyword token
\* of its own, never to Identifier, and a statement that begins with it is a
\* parse error, so that the program executes nothing.
C13_ReservedWordsAreRejected ==
    (harness = "runner" /\ mode = "file" /\ pc = "exit"
       /\ \E w \in ReservedWords : content = ReservedProgram(w))
    => /\ scanner.tokens[4].lexeme \in ReservedWords
       /\ scanner.tokens[4].token_type # "Identifier"
       /\ parser.error
       /\ "print" \notin KindsOf(stdout \o stderr)
       /\ "runtime_error" \notin KindsOf(stdout \o stderr)

\* the scopes among 1..j of a chain that hold name k, and the nearest of them
Holders(env, j, k) == {i \in 1..j : Has(env[i], k)}

Nearest(env, j, k) == CHOOSE i \in Holders(env, j, k) : \A h \in Holders(env, j, k) : h <= i

\* C14: after define(n, v) a get(n) from that scope gives v, and a get from any
\* scope gives the value of the nearest scope, going outward, that defines the
\* name; a define writes to no enclosing scope; and once a block is left every
\* name reads as it read in the enclosing scope before.
C14_DefineThenGet ==
    /\ [](harness = "env"
            => \A j \in 1..Len(interp.env), k \in EnvNames :
                  Holders(interp.env, j, k) # {}
                  => /\ GetFrom(interp.env, j, k).ok
                     /\ GetFrom(interp.env, j, k).v
                           = Lookup(interp.env[Nearest(interp.env, j, k)], k))
    /\ [][(harness = "env" /\ todo'[1] = "define")
            => /\ get(interp'.env, todo'[2]).ok
               /\ get(interp'.env, todo'[2]).v = todo'[3]
               /\ Len(interp'.env) = Len(interp.env)
               /\ \A i \in 1..(Len(interp.env) - 1) : interp'.env[i] = interp.env[i]
               /\ \A k \in EnvNames \ {todo'[2]} :
                     get(interp'.env, k) = get(interp.env, k)]_vars
    /\ [][(harness = "env" /\ todo'[1] = "leave")
            => \A k \in EnvNames :
                  get(interp'.env, k) = GetFrom(interp.env, Len(interp.env) - 1, k)]_vars

\* the inner scope shadows a, the outer b is read through it
C14_ShadowedAndSeenThrough ==
    /\ harness = "env" /\ Len(interp.env) = 2
    /\ Has(interp.env[1], "a") /\ Lookup(interp.env[1], "a") = LitString("hello")
    /\ Has(interp.env[2], "a") /\ Lookup(interp.env[2], "a") = LitString("world")
    /\ Has(interp.env[1], "b") /\ ~Has(interp.env[2], "b")
    /\ todo = <<"get", "b", LitNone>>
    /\ result.ok /\ result.v = Lookup(interp.env[1], "b")

\* C15: assign(n, v) writes v to n in the nearest scope, going outward, that
\* has n, and changes nothing else in any scope; with n in no scope it fails
\* with `undefined variable` and changes nothing; and what was assigned to an
\* outer variable inside a block is there once the block is left.
C15_AssignWritesNearestOnly ==
    /\ [][(harness = "env" /\ todo'[1] = "assign")
            => /\ Len(interp'.env) = Len(interp.env)
               /\ IF Holders(interp.env, Len(interp.env), todo'[2]) = {}
                  THEN /\ ~result'.ok
                       /\ result'.cause = "undefined variable '" \o todo'[2] \o "'"
                       /\ interp'.env = interp.env
                  ELSE /\ result'.ok
                       /\ \A i \in 1..Len(interp.env) :
                             IF i = Nearest(interp.env, Len(interp.env), todo'[2])
                             THEN interp'.env[i]
                                     = {e \in interp.env[i] : e.k # todo'[2]}
                                          \cup {[k |-> todo'[2], v |-> todo'[3]]}
                             ELSE interp'.env[i] = interp.env[i]]_vars
    /\ [][(harness = "env" /\ todo'[1] = "leave")
            => /\ Len(interp'.env) = Len(interp.env) - 1
               /\ \A i \in 1..Len(interp'.env) : interp'.env[i] = interp.env[i]]_vars

\* an assignment made two blocks deep has written the root's variable
C15_AssignedFromInnerBlock ==
    /\ harness = "env" /\ Len(interp.env) = 3
    /\ todo = <<"assign", "a", LitString("world")>> /\ result.ok
    /\ Has(interp.env[1], "a") /\ ~Has(interp.env[2], "a") /\ ~Has(interp.env[3], "a")
    /\ Lookup(interp.env[1], "a") = LitString("world")
    /\ Has(interp.env[3], "b")

\* C16: at every point of an evaluation reached without a runtime error the
\* chain holds one scope more than there are Block nodes around the statement
\* being evaluated; an evaluation that succeeds ends with the chain it began
\* with; and the chain is never without its root.
C16_DepthIsBlockNesting ==
    (harness = "eval" /\ pc \in {"exec", "executed"})
    => /\ Len(interp.env) >= 1
       /\ \A i \in DOMAIN interp.points :
             interp.points[i][2] = 1 + interp.points[i][1]
       /\ (pc = "executed" /\ result.ok)
             => /\ Len(interp.env) = 1
                /\ interp.blocks = 0
                /\ Len(interp.points) >= 2 * Len(todo)

\* a program with a block in a block in a loop body has run to its end
C16_ThreeBlocksDeep ==
    /\ harness = "eval" /\ pc = "executed" /\ result.ok
    /\ \E i \in DOMAIN interp.points : interp.points[i] = <<3, 4>>
    /\ interp.points[Len(interp.points)] = <<0, 1>>
    /\ Len(interp.env) = 1

\* truthiness as the claim defines it
Truthy(v) ==
    CASE v.t = "None" -> FALSE
      [] v.t = "Boolean" -> v.b
      [] OTHER -> TRUE

\* C17: `l or r` is the value of l itself when l is truthy and `l and r` the
\* value of l itself when l is not; r is then not evaluated (the environment is
\* as before and no error of r is raised); otherwise the result, the error and
\* the effects are those of r.
C17_LogicalShortCircuit ==
    (harness = "eval" /\ pc = "evaluated" /\ todo[1] = "Logical")
    => IF (todo[3].token_type = "Or") <=> Truthy(todo[2][2])
       THEN /\ result.ok
            /\ result.v = todo[2][2]
            /\ interp.env = EvalInterpreter.env
       ELSE /\ result.ok = evaluate_expression(EvalInterpreter, todo[4]).ok
            /\ result.v = evaluate_expression(EvalInterpreter, todo[4]).v
            /\ result.cause = evaluate_expression(EvalInterpreter, todo[4]).cause
            /\ interp.env = evaluate_expression(EvalInterpreter, todo[4]).I.env

\* `"a" or (a = 1)` gave "a" itself and left a as it was
C17_RightOperandSkipped ==
    /\ harness = "eval" /\ pc = "evaluated" /\ todo[1] = "Logical"
    /\ todo[3].token_type = "Or"
    /\ todo[2] = ExprLiteral(LitString("a"))
    /\ todo[4] = ExprGroup(ExprAssignment(OperatorToken("a"), ExprLiteral(LitInt(1))))
    /\ result.ok /\ result.v = LitString("a")
    /\ get(interp.env, "a").v = LitInt(0)

\* C18: Nil is false, Boolean(b) is b, every Number and every String is true;
\* `!e` is Boolean(not truthy(e)) for a value of any variant, without an error;
\* `if` takes its then-branch and `while` runs its body exactly when the
\* condition is truthy.
C18_TruthinessIsTotal ==
    /\ (harness = "eval" /\ pc = "evaluated" /\ todo[1] = "Unary"
          /\ todo[2].token_type = "Bang")
       => /\ result.ok
          /\ result.v = LitBoolean(~Truthy(todo[3][2]))
    /\ (harness = "eval" /\ pc = "executed" /\ \E l \in EvalLiterals : todo = Branch(l))
       => /\ result.ok
          /\ stdout = <<Line("print", IF Truthy(todo[1][2][2]) THEN "then" ELSE "else")>>
    /\ (harness = "eval" /\ pc = "executed" /\ \E l \in EvalLiterals : todo = OnePass(l))
       => /\ result.ok
          /\ stdout = IF Truthy(todo[1][2][2]) THEN <<Line("print", "body")>> ELSE <<>>

\* `while (0) { print "body"; break; }` ran its body
C18_ZeroIsTrue ==
    /\ harness = "eval" /\ pc = "executed"
    /\ todo = OnePass(LitInt(0))
    /\ stdout = <<Line("print", "body")>>

\* C19: the left operand of a Binary expression is evaluated before the right
\* one and both before the operator is applied: the effects are those of the
\* left operand followed by those of the right, also when the operator then
\* fails; in `(a = l) op (b = a)` both a and b end up holding l.
C19_OperandsLeftToRight ==
    /\ (harness = "eval" /\ pc = "evaluated" /\ todo[1] = "Binary"
          /\ evaluate_expression(EvalInterpreter, todo[2]).ok
          /\ evaluate_expression(evaluate_expression(EvalInterpreter, todo[2]).I,
                                 todo[4]).ok)
       => interp.env = evaluate_expression(evaluate_expression(EvalInterpreter, todo[2]).I,
                                           todo[4]).I.env
    /\ (harness = "eval" /\ pc = "evaluated" /\ todo \in OrderExpressions)
       => /\ get(interp.env, "a").v = todo[2][2][3][2]
          /\ get(interp.env, "b").v = todo[2][2][3][2]
          /\ result.ok <=> todo[2][2][3][2].t = "Number"

\* `(a = "x") < (b = a)` failed and both assignments are in place
C19_AssignedBeforeTheOperatorFailed ==
    /\ harness = "eval" /\ pc = "evaluated" /\ todo \in OrderExpressions
    /\ todo[3].token_type = "Less"
    /\ ~result.ok /\ result.cause = "invalid expression"
    /\ get(interp.env, "a").v = LitString("x")
    /\ get(interp.env, "b").v = LitString("x")

\* the statements of a sequence evaluated one after the other up to the first
\* that fails: how many succeeded, and the result of the last one evaluated
RECURSIVE UpToFailure(_, _, _)
UpToFailure(I, stmts, done) ==
    IF stmts = <<>> THEN [done |-> done, ok |-> TRUE, I |-> I, cause |-> ""]
    ELSE IF ~evaluate_statement(I, Head(stmts)).ok
    THEN [done |-> done, ok |-> FALSE, I |-> evaluate_statement(I, Head(stmts)).I,
          cause |-> evaluate_statement(I, Head(stmts)).cause]
    ELSE UpToFailure(evaluate_statement(I, Head(stmts)).I, Tail(stmts), done + 1)

\* C20: when a statement of the sequence raises a runtime error, interpret
\* returns that error, the statements after it are not executed, and the output
\* and the bindings are those the evaluation had reached at the error.
C20_FirstErrorEndsTheSequence ==
    (harness = "eval" /\ pc = "executed")
    => /\ result.ok = UpToFailure(InterpreterNew("stdout"), todo, 0).ok
       /\ result.cause = UpToFailure(InterpreterNew("stdout"), todo, 0).cause
       /\ interp.env = UpToFailure(InterpreterNew("stdout"), todo, 0).I.env
       /\ stdout = UpToFailure(InterpreterNew("stdout"), todo, 0).I.written
       /\ (todo = ProgramOf("print 1; print a; print 2;"))
             => /\ ~result.ok
                /\ result.cause = "undefined variable 'a'"
                /\ stdout = <<Line("print", "1")>>

\* the third statement failed inside its block, after it had assigned and printed
C20_PartialStateStays ==
    /\ harness = "eval" /\ pc = "executed" /\ ~result.ok
    /\ todo = ProgramOf("print 1; var a = 1; { a = 2; print a; print -\"x\"; print 3; } print 4;")
    /\ stdout = <<Line("print", "1"), Line("print", "2")>>
    /\ get(interp.env, "a").v = LitInt(2)
    /\ result.cause = "'-' can only be used on numerical values."

\* what j = 0 .. k-1 print in the inner loop before it breaks, `next` after each
InnerPrints(k) ==
    [x \in 1..(2 * k) |-> IF x % 2 = 1 THEN Line("print", IntToStr((x - 1) \div 2))
                          ELSE Line("print", "next")]

RECURSIVE Times(_, _)
Times(n, s) == IF n = 0 THEN <<>> ELSE s \o Times(n - 1, s)

\* C21: once a Break has executed in a loop body no later statement of a Block
\* around it runs in that iteration (the increment of a for loop included), the
\* innermost While makes no further iteration, and the flag is false again when
\* that While has completed: the outer loop goes on and the statements after the
\* inner loop in its body run.
C21_BreakLeavesInnermostLoopOnly ==
    /\ \A n \in 1..2, k \in 0..1 :
          (harness = "eval" /\ pc = "executed" /\ todo = ProgramOf(InnerBreak(n, k)))
          => /\ result.ok
             /\ ~interp.break_encountered
             /\ stdout = Times(n, InnerPrints(k) \o <<Line("print", "after")>>)
             /\ get(interp.env, "i").v = LitInt(n)
    /\ \A k \in 0..2 :
          (harness = "eval" /\ pc = "executed" /\ todo = ProgramOf(ForBreak(k)))
          => /\ result.ok
             /\ ~interp.break_encountered
             /\ stdout = [x \in 1..k |-> Line("print", IntToStr(x - 1))]
                            \o <<Line("print", IntToStr(k))>>

\* the inner loop broke in its second pass, in both passes of the outer loop
C21_OuterLoopWentOn ==
    /\ harness = "eval" /\ pc = "executed" /\ result.ok
    /\ todo = ProgramOf(InnerBreak(2, 1))
    /\ stdout = <<Line("print", "0"), Line("print", "next"), Line("print", "after"),
                  Line("print", "0"), Line("print", "next"), Line("print", "after")>>
    /\ ~interp.break_encountered

\* the parenthesized print of an expression: every Binary, Logical, Unary and
\* Assignment subtree as (operator operands)
RECURSIVE Paren(_)
Paren(expr) ==
    CASE expr[1] = "Literal" -> DisplayLiteral(expr[2])
      [] expr[1] = "Variable" -> expr[2].lexeme
      [] expr[1] = "Group" -> "(group " \o Paren(expr[2]) \o ")"
      [] expr[1] = "Assignment" ->
            "(= " \o expr[2].lexeme \o " " \o Paren(expr[3]) \o ")"
      [] expr[1] = "Unary" -> "(" \o expr[2].lexeme \o " " \o Paren(expr[3]) \o ")"
      [] OTHER -> "(" \o expr[3].lexeme \o " " \o Paren(expr[2]) \o " "
                     \o Paren(expr[4]) \o ")"

\* the precedence levels of the claim, the tightest the highest
Level(o) ==
    CASE o \in {"*", "/"} -> 6
      [] o \in {"+", "-"} -> 5
      [] o \in {"<", ">="} -> 4
      [] o \in {"==", "!="} -> 3
      [] o = "and" -> 2
      [] o = "or" -> 1
      [] OTHER -> 0

\* how `a o1 b o2 c` groups: to the left unless o2 binds tighter or o1 is `=`
Grouped(o1, o2) ==
    IF Level(o1) >= Level(o2) /\ o1 # "="
    THEN "(" \o o2 \o " (" \o o1 \o " a b) c)"
    ELSE "(" \o o1 \o " a (" \o o2 \o " b c))"

Parsed(src) == harness = "parser" /\ pc = "parsed" /\ content = src

PrintedBy(stmts) == interpret(InterpreterNew("stdout"), stmts).I.written

\* C22: binary operators of one level group to the left, assignment and the
\* unary operators to the right, and an operator of a higher level binds tighter
\* (factor > term > comparison > equality > and > or > assignment); `2 + 2 * 5`
\* is (+ 2 (* 2 5)) and evaluates to 12, `4 / 2 - 3` to -1, and `a = b = 3` is
\* Assignment(a, Assignment(b, 3)).
C22_PrecedenceAndAssociativity ==
    /\ \A o1 \in BinaryLexemes \cup {"="}, o2 \in BinaryLexemes :
          Parsed(PairSource(o1, o2))
          => /\ ~parser.error /\ Len(parser.ret) = 1
             /\ Paren(parser.ret[1][2]) = Grouped(o1, o2)
    /\ Parsed("a = b = 3;")
          => /\ ~parser.error
             /\ Paren(parser.ret[1][2]) = "(= a (= b 3))"
             /\ parser.ret[1][2][1] = "Assignment"
             /\ parser.ret[1][2][3][1] = "Assignment"
             /\ parser.ret[1][2][3][3] = ExprLiteral(LitInt(3))
    /\ Parsed("-!a;") => Paren(parser.ret[1][2]) = "(- (! a))"
    /\ Parsed("!-a * b;") => Paren(parser.ret[1][2]) = "(* (! (- a)) b)"
    /\ Parsed("a - -b;") => Paren(parser.ret[1][2]) = "(- a (- b))"
    /\ Parsed("print 2 + 2 * 5;")
          => /\ Paren(parser.ret[1][2]) = "(+ 2 (* 2 5))"
             /\ PrintedBy(parser.ret) = <<Line("print", "12")>>
    /\ Parsed("print 4 / 2 - 3;")
          => /\ Paren(parser.ret[1][2]) = "(- (/ 4 2) 3)"
             /\ PrintedBy(parser.ret) = <<Line("print", "-1")>>

\* `a - b - c` has been parsed as (a - b) - c
C22_SameLevelGroupsLeft ==
    /\ Parsed("a - b - c;") /\ ~parser.error
    /\ parser.ret[1][2][1] = "Binary"
    /\ parser.ret[1][2][2][1] = "Binary"
    /\ parser.ret[1][2][4][1] = "Variable"
    /\ Paren(parser.ret[1][2]) = "(- (- a b) c)"

\* C23: Assignment(n, e) with n bound in some scope of the chain evaluates e
\* to v, makes v the binding of n and yields v: `print a = 3;` prints 3 and a
\* then reads 3, from whatever depth the assignment is made.
C23_AssignmentYieldsItsValue ==
    /\ (harness = "eval" /\ pc = "evaluated" /\ todo[1] = "Assignment"
          /\ evaluate_expression(EvalInterpreter, todo[3]).ok)
       => /\ result.ok
          /\ result.v = evaluate_expression(EvalInterpreter, todo[3]).v
          /\ get(interp.env, todo[2].lexeme).ok
          /\ get(interp.env, todo[2].lexeme).v = result.v
          /\ \A n \in {"a", "b"} \ {todo[2].lexeme} :
                get(interp.env, n)
                  = get(evaluate_expression(EvalInterpreter, todo[3]).I.env, n)
    /\ (harness = "eval" /\ pc = "executed" /\ todo = ProgramOf(AssignSource))
       => /\ result.ok
          /\ stdout = <<Line("print", "3"), Line("print", "4"), Line("print", "4"),
                        Line("print", "3")>>
          /\ get(interp.env, "a").v = LitInt(3)

\* `a = a + 3` with a bound to 0 gave 3 and a reads 3
C23_AssignedAndYielded ==
    /\ harness = "eval" /\ pc = "evaluated" /\ todo[1] = "Assignment"
    /\ todo[2].lexeme = "a" /\ todo[3][1] = "Binary"
    /\ result.ok /\ result.v = LitInt(3)
    /\ get(interp.env, "a").v = LitInt(3)
    /\ get(interp.env, "b").v = LitInt(0)

InSession == harness = "runner" /\ mode = "repl"

\* C24 as stated: the bindings of a prompt line are visible to every later
\* line, no scan, parse or runtime error ends the prompt loop, and the loop
\* ends when, and only when, a line of just "\n" is read.  The last part fails:
\* the loop also ends when writing the prompt or reading the line fails.
C24_PromptEndsOnlyOnEmptyLine ==
    (InSession /\ pc = "exit") => content = "\n"

\* C24 as it holds: between the lines of a session the environment is left as
\* the last line left it, so `print a` after `var a = 1` prints 1; no scan,
\* parse or runtime error ends the prompt loop; the loop ends with Ok when, and
\* only when, a line of just "\n" is read, and with Err when, and only when,
\* writing the prompt or reading the line fails.
C24_SessionKeepsBindingsAndGoesOn ==
    /\ []((InSession /\ pc = "exit")
            => \/ content = "\n" /\ result = "Ok"
               \/ content # "\n" /\ result = "Err")
    /\ []((InSession /\ pc = "prompt" /\ nlines = 2 /\ content = "print a\n"
             /\ Len(stderr) = 2 /\ stderr[1] = Line("echo", "a = 1"))
            => stderr[2] = Line("print", "1"))
    /\ [][InSession
            => /\ pc # "interpret" => interp'.env = interp.env
               /\ pc \in {"scan", "parse", "interpret"}
                     => pc' \in {"scan", "parse", "interpret", "prompt", "hung"}
               /\ (pc = "prompt" /\ content' = "\n" /\ content # "\n")
                     => pc' = "exit" /\ result' = "Ok"
               /\ pc' = "exit" => pc = "prompt"]_vars

\* the second line of a session, `print a`, has printed the 1 the first bound
C24_SecondLineSawTheFirst ==
    /\ InSession /\ pc = "prompt" /\ nlines = 2 /\ content = "print a\n"
    /\ stderr = <<Line("echo", "a = 1"), Line("print", "1")>>
    /\ get(interp.env, "a").v = LitInt(1)

\* a statement written out: its variant and its parts, expressions as Paren
RECURSIVE Show(_), ShowAll(_)
Show(stmt) ==
    CASE stmt[1] = "Break" -> "Break"
      [] stmt[1] = "If" ->
            "If(" \o Paren(stmt[2]) \o ", " \o Show(stmt[3])
              \o (IF stmt[4] # None THEN ", " \o Show(stmt[4][1]) ELSE "") \o ")"
      [] stmt[1] = "While" -> "While(" \o Paren(stmt[2]) \o ", " \o Show(stmt[3]) \o ")"
      [] stmt[1] = "Print" -> "Print(" \o Paren(stmt[2]) \o ")"
      [] stmt[1] = "Var" ->
            "Var(" \o stmt[2].lexeme
              \o (IF stmt[3] # None THEN ", " \o Paren(stmt[3][1]) ELSE "") \o ")"
      [] stmt[1] = "Expr" -> "Expr(" \o Paren(stmt[2]) \o ")"
      [] OTHER -> "Block[" \o ShowAll(stmt[2]) \o "]"

ShowAll(stmts) ==
    IF stmts = <<>> THEN ""
    ELSE IF Len(stmts) = 1 THEN Show(stmts[1])
    ELSE Show(stmts[1]) \o ", " \o ShowAll(Tail(stmts))

\* the clauses of a ForSource written out
ShownInit(init) ==
    CASE init = "var i = 0;" -> "Var(i, 0)" [] init = "i = 0;" -> "Expr((= i 0))"
      [] OTHER -> ""
ShownCond(cond) == IF cond = "" THEN "true" ELSE "(< i 2)"
ShownIncr(incr) == IF incr = "" THEN "" ELSE "Expr((= i (+ i 1)))"
ShownBody(body) == IF body = "print i;" THEN "Print(i)" ELSE "Block[Print(i)]"

\* C25 as stated: a for statement parses to a Block of init (when present)
\* and While(c, Block[body, ExpressionStatement(incr)]), the increment
\* statement left out of its Block when incr is absent, c being cond or
\* Literal(Boolean(true)).
C25_ForIsBlockOfInitAndWhile ==
    \A init \in ForInits, cond \in ForConds, incr \in ForIncrs, body \in ForBodies :
       Parsed(ForSource(init, cond, incr, body))
       => Show(parser.ret[1])
            = "Block[" \o ShownInit(init) \o (IF init = ";" THEN "" ELSE ", ")
                \o "While(" \o ShownCond(cond) \o ", Block[" \o ShownBody(body)
                \o (IF incr = "" THEN "" ELSE ", " \o ShownIncr(incr)) \o "])]"

\* what for_statement makes of the loop without its initializer
ShownWhile(cond, incr, body) ==
    "While(" \o ShownCond(cond) \o ", "
      \o (IF incr = "" THEN ShownBody(body)
          ELSE "Block[" \o ShownBody(body) \o ", " \o ShownIncr(incr) \o "]")
      \o ")"

\* C25 as it holds: the loop is While(c, B) with c cond or Literal(Boolean(true))
\* and B Block[body, ExpressionStatement(incr)], or body itself when incr is
\* absent; the result is Block[init, While] when init is present and the While
\* itself otherwise.  Executed, init runs once in a fresh scope, body and incr
\* repeat while c is truthy, and a variable declared in init is not bound
\* after the loop.
C25_ForDesugaring ==
    /\ \A init \in ForInits, cond \in ForConds, incr \in ForIncrs, body \in ForBodies :
          Parsed(ForSource(init, cond, incr, body))
          => /\ ~parser.error /\ Len(parser.ret) = 1
             /\ Show(parser.ret[1])
                  = IF init = ";" THEN ShownWhile(cond, incr, body)
                    ELSE "Block[" \o ShownInit(init) \o ", "
                           \o ShownWhile(cond, incr, body) \o "]"
    /\ Parsed("var i = 9; for (var i = 0; i < 2; i = i + 1) print i; print i;")
          => PrintedBy(parser.ret)
               = <<Line("print", "0"), Line("print", "1"), Line("print", "9")>>
    /\ Parsed("for (var k = 0; k < 2; k = k + 1) print k; print k;")
          => /\ PrintedBy(parser.ret) = <<Line("print", "0"), Line("print", "1")>>
             /\ interpret(InterpreterNew("stdout"), parser.ret).cause
                  = "undefined variable 'k'"
    /\ Parsed("var i = 0; for (; i < 2;) { print i; i = i + 1; } print i;")
          => PrintedBy(parser.ret)
               = <<Line("print", "0"), Line("print", "1"), Line("print", "2")>>
    /\ Parsed("var i = 0; for (;;) { print i; i = i + 1; if (i >= 2) break; }")
          => /\ PrintedBy(parser.ret) = <<Line("print", "0"), Line("print", "1")>>
             /\ interpret(InterpreterNew("stdout"), parser.ret).ok
    /\ Parsed("var i; for (i = 1; i < 3; i = i + 1) { print i; }")
          => /\ PrintedBy(parser.ret) = <<Line("print", "1"), Line("print", "2")>>
             /\ get(interpret(InterpreterNew("stdout"), parser.ret).I.env, "i").v
                  = LitInt(3)

\* `for (;;) print i;` has been parsed to a While that is in no Block and has
\* no Block for its body
C25_BareWhile ==
    /\ Parsed(ForSource(";", "", "", "print i;")) /\ ~parser.error
    /\ parser.ret[1][1] = "While"
    /\ parser.ret[1][2] = ExprLiteral(LitBoolean(TRUE))
    /\ parser.ret[1][3][1] = "Print"

\* the number of "\n" characters of a text
Newlines(src) == Cardinality({i \in 1..Len(src) : Ch(src, i) = "\n"})

\* the first index from i on that holds "\n", or the index past the end
RECURSIVE LineEnd(_, _)
LineEnd(src, i) ==
    IF i > Len(src) \/ Ch(src, i) = "\n" THEN i ELSE LineEnd(src, i + 1)

\* a text without its comments: outside a string, `//` and what follows it up
\* to the end of the line are left out
RECURSIVE Uncommented(_, _, _)
Uncommented(src, i, in_string) ==
    IF i > Len(src) THEN ""
    ELSE IF in_string
    THEN Ch(src, i) \o Uncommented(src, i + 1, Ch(src, i) # "\"")
    ELSE IF Ch(src, i) = "/" /\ i < Len(src) /\ Ch(src, i + 1) = "/"
    THEN Uncommented(src, LineEnd(src, i), FALSE)
    ELSE Ch(src, i) \o Uncommented(src, i + 1, Ch(src, i) = "\"")

\* the lexemes of a token list with their types
Lexemes(tokens) == [i \in DOMAIN tokens |-> <<tokens[i].token_type, tokens[i].lexeme>>]

\* C26: after a successful run the scanner has consumed the whole source:
\* loc.len and loc.column both equal the number of characters, loc.line is 1
\* plus the number of "\n" read; a comment contributes no token: the tokens
\* of a source that scans without error are the lexemes of the text outside
\* comments and one Eof.
C26_WholeSourceConsumed ==
    (harness = "scanner" /\ pc = "scanned" /\ scanres = "Ok")
    => /\ scanner.loc.len = Len(content)
       /\ scanner.loc.column = Len(content)
       /\ scanner.loc.line = 1 + Newlines(content)
       /\ ScannerRunOp(ScannerNew(content)).ok
            => Lexemes(scanner.tokens)
                 = Lexemes(ScannerRunOp(ScannerNew(Uncommented(content, 1, FALSE))).s.tokens)
       /\ \A i \in DOMAIN scanner.tokens :
             scanner.tokens[i].token_type = "Slash"
             => ~(scanner.tokens[i].loc.column + 2 <= Len(content)
                    /\ Ch(content, scanner.tokens[i].loc.column + 2) = "/")
       /\ content = "(( )){} // here are some tokens!"
             => Lexemes(scanner.tokens)
                  = <<(<<"LeftParen", "(">>), <<"LeftParen", "(">>, <<"RightParen", ")">>,
                      <<"RightParen", ")">>, <<"LeftBrace", "{">>, <<"RightBrace", "}">>,
                      <<"Eof", "">>>>

\* a source of three lines with a comment on the second has been scanned
C26_CommentBetweenLines ==
    /\ harness = "scanner" /\ pc = "scanned" /\ scanres = "Ok"
    /\ content = "var a1 = 25.50;\n// hi\nprint \"he\nllo\" != nil; 1. <= x"
    /\ scanner.loc.line = 4
    /\ scanner.loc.len = Len(content)
    /\ Len(scanner.tokens) = 15
    /\ \A i \in DOMAIN scanner.tokens : scanner.tokens[i].lexeme # "hi"

\* C27: whenever Interpreter::interpret has returned, with Ok or with Err,
\* the break flag is false: a runtime error raised when the loop condition is
\* evaluated again after a Break does not leave it set, and a Block or While
\* of a later prompt line runs its statements.
C27_BreakFlagClearAfterInterpret ==
    /\ (harness = "runner" /\ pc \in {"prompt", "exit"}) => ~interp.break_encountered
    /\ (InSession /\ pc = "prompt" /\ nlines = 2 /\ content = "{ print 1; }\n")
          => \E i \in DOMAIN stderr : stderr[i] = Line("print", "1")
    /\ (InSession /\ pc = "prompt" /\ nlines = 2
          /\ content = "while (true) { print 2; break; }\n")
          => \E i \in DOMAIN stderr : stderr[i] = Line("print", "2")

\* C28: in_loop is false whenever parse() starts on a top-level declaration,
\* also after a parse error inside the header or body of a loop, so every
\* `break` read outside the loop bodies is rejected with its own diagnostic.
C28_InLoopClearAtTopLevel ==
    (harness = "parser" /\ pc = "parse")
    => /\ ~is_at_end(parser.p) => ~parser.p.in_loop
       /\ \A i \in DOMAIN parser.p.breaks :
             parser.p.breaks[i][1] = 0 => ~parser.p.breaks[i][2]

\* C29: once standard input is at its end (read_line returns no character),
\* _run_repl eventually returns instead of prompting again for ever.
C29_EndOfInputEndsThePrompt ==
    (InSession /\ AtEof) ~> (pc = "exit")

\* C30: Parser::parse ends without a panic on every token list that is empty or
\* ends with Eof, strict or lenient: no index is out of range (previous() is
\* never reached with the cursor at 0), the cursor stays on or before the
\* first Eof token, and every iteration of the loop of parse() (a declaration,
\* or a failed one followed by synchronize) leaves the cursor at least one
\* token further, so that the loop comes to the Eof token and parse() returns.
CursorInRange(p) ==
    /\ ~p.panicked
    /\ p.tokens # <<>> => p.curr + 1 <= Len(p.tokens)
    /\ \A i \in 1..p.curr : p.tokens[i].token_type # "Eof"

C30_ParseAdvancesAndReturns ==
    /\ \A s \in BOOLEAN :
          /\ parse(ParserNew(<<>>, "stdout", s)).returned
          /\ CursorInRange(parse(ParserNew(<<>>, "stdout", s)).p)
    /\ harness = "parser" =>
          /\ CursorInRange(parser.p)
          /\ (pc = "parse" /\ ~is_at_end(parser.p)) =>
                /\ ParseIter(parser).p.curr >= parser.p.curr + 1
                /\ CursorInRange(ParseIter(parser).p)
          /\ pc = "parsed" => parser.returned /\ is_at_end(parser.p)

\* a lenient parse has returned after a failed declaration, a synchronize and
\* a forgiven semicolon, with the cursor on the Eof token
C30_ReturnedAfterSynchronize ==
    /\ harness = "parser" /\ pc = "parsed" /\ ~strict
    /\ parser.returned /\ parser.error /\ parser.p.synth # <<>>
    /\ parser.p.curr + 1 = Len(parser.p.tokens) /\ parser.p.curr >= 3

====
